---------------------------- MODULE Spec2Model ----------------------------
(***************************************************************************)
(* Valuation pipeline of the real-estate expert system:                    *)
(*   - RuleEngine: construction on a rules.json, evaluate with its         *)
(*     ValuationTrace, as one call and step by step (expert_system/engine) *)
(*   - blend_predictions, the blending arbiter (expert_system/ml_manager)  *)
(*   - validate_inputs (expert_system/validator), MLModelManager and the   *)
(*     synthetic predictions (expert_system/ml_manager)                    *)
(*   - run_evaluation, the request pipeline (app.py)                       *)
(*                                                                         *)
(* Python floats are modelled as exact rationals <<n, d>> (d > 0, lowest   *)
(* terms); the inputs are drawn from decimal grids on which every          *)
(* intermediate value fits TLC's integers.  None is the empty tuple.       *)
(***************************************************************************)
EXTENDS Integers, Sequences, FiniteSets, TLC

VARIABLES config_doc, rules, pc, features, result, blend_in, blend_out,
          heap, calls, frame, models, run_in, run, run_out

vars == <<config_doc, rules, pc, features, result, blend_in, blend_out,
          heap, calls, frame, models, run_in, run, run_out>>

(***************************************************************************)
(* Exact rational arithmetic standing for Python float arithmetic          *)
(***************************************************************************)
Abs(i) == IF i < 0 THEN -i ELSE i

RECURSIVE GCD(_, _)
GCD(a, b) == IF b = 0 THEN a ELSE GCD(b, a % b)

\* the rational n/d in lowest terms with a positive denominator (d # 0)
R(n, d) ==
    LET s == IF d < 0 THEN -1 ELSE 1
        g == GCD(Abs(n), Abs(d))
    IN  <<(s * n) \div g, Abs(d) \div g>>

Num(n) == <<n, 1>>
Zero == <<0, 1>>
One == <<1, 1>>

RNeg(x) == <<-x[1], x[2]>>

RMul(x, y) ==
    LET g1 == GCD(Abs(x[1]), y[2])
        g2 == GCD(Abs(y[1]), x[2])
    IN  <<(x[1] \div g1) * (y[1] \div g2), (x[2] \div g2) * (y[2] \div g1)>>

RAdd(x, y) ==
    LET g == GCD(x[2], y[2])
    IN  R(x[1] * (y[2] \div g) + y[1] * (x[2] \div g), (x[2] \div g) * y[2])

RSub(x, y) == RAdd(x, RNeg(y))

\* x / y for y # 0; the callers model Python's ZeroDivisionError for y = 0
RDiv(x, y) ==
    IF y[1] > 0 THEN RMul(x, <<y[2], y[1]>>)
                ELSE RMul(x, <<-y[2], -y[1]>>)

\* a/b < c/d for b, d > 0, by integer parts and then the reciprocals of the
\* fractional parts, so that no cross product is formed
RECURSIVE FracLt(_, _, _, _)
FracLt(a, b, c, d) ==
    LET qa == a \div b
        qc == c \div d
        ra == a % b
        rc == c % d
    IN  IF qa # qc THEN qa < qc
        ELSE IF rc = 0 THEN FALSE
        ELSE IF ra = 0 THEN TRUE
        ELSE FracLt(d, rc, b, ra)

RLt(x, y) == FracLt(x[1], x[2], y[1], y[2])

RLe(x, y) == ~RLt(y, x)
RGt(x, y) == RLt(y, x)
RGe(x, y) == ~RLt(x, y)

\* Python's min(a, b) and max(a, b): the first argument wins a tie
RMin(a, b) == IF RLt(b, a) THEN b ELSE a
RMax(a, b) == IF RGt(b, a) THEN b ELSE a
RAbs(x) == <<Abs(x[1]), x[2]>>

\* Python's None
None == <<>>

\* dict.get(key, default)
Get(d, k, default) == IF k \in DOMAIN d THEN d[k] ELSE default

RECURSIVE Pow10(_)
Pow10(k) == IF k = 0 THEN 1 ELSE 10 * Pow10(k - 1)

(***************************************************************************)
(* blend_predictions (ml_manager.py)                                       *)
(***************************************************************************)
\* a confidence that float() rejects (TypeError / ValueError)
NotANumber == <<"not-a-number">>

IsNumber(c) == Len(c) = 2

\* a confidence without the ceiling of 0.95
ClampConfidence_no_ceiling(c) == RMax(Zero, c)

\* ml_confidence = max(0.0, min(float(ml_confidence), 0.95))
ClampConfidence(c) == RMax(Zero, RMin(c, R(95, 100)))

\* a low-confidence test that lets the boundary 0.05 through
LowConfidence_exclusive(conf) == RLt(conf, R(5, 100))

\* if ml_confidence <= 0.05
LowConfidence(conf) == RLe(conf, R(5, 100))

\* the blend_info dictionary (the reason text is not modelled)
Decision(method, w_expert, w_ml, conf, expert_value, ml_value) ==
    [method |-> method, expert_weight |-> w_expert, ml_weight |-> w_ml,
     ml_confidence |-> conf, expert_value |-> expert_value,
     ml_value |-> ml_value]

\* an unavailable prediction that still takes the whole weight
blend_unavailable_ml_weighted(expert_value) ==
    [status |-> "returned", value |-> expert_value,
     info |-> Decision("expert_only", Zero, One, Zero, expert_value, None)]

\* if ml_value is None: return expert_value, {...}
blend_unavailable(expert_value) ==
    [status |-> "returned", value |-> expert_value,
     info |-> Decision("expert_only", One, Zero, Zero, expert_value, None)]

\* a low-confidence decision that keeps the confidence as the ml weight
blend_low_confidence_keeps_weight(expert_value, ml_value, conf) ==
    [status |-> "returned", value |-> expert_value,
     info |-> Decision("expert_only", RSub(One, conf), conf, conf,
                       expert_value, ml_value)]

\* if ml_confidence <= 0.05: return expert_value, {...}
blend_low_confidence(expert_value, ml_value, conf) ==
    [status |-> "returned", value |-> expert_value,
     info |-> Decision("expert_only", One, Zero, conf, expert_value, ml_value)]

\* an expert weight that is not the complement of the ml weight
expert_weight_of_ceiling(w_ml) == RSub(R(95, 100), w_ml)

\* w_expert = 1 - w_ml
expert_weight_of(w_ml) == RSub(One, w_ml)

\* a weighted average that leaves the predictive value unweighted
weighted_average_full_ml(w_ml, w_expert, expert_value, ml_value) ==
    RAdd(ml_value, RMul(w_expert, expert_value))

\* a weighted average with the two weights swapped
weighted_average_swapped(w_ml, w_expert, expert_value, ml_value) ==
    RAdd(RMul(w_expert, ml_value), RMul(w_ml, expert_value))

\* blended = w_ml * ml_value + w_expert * expert_value
weighted_average(w_ml, w_expert, expert_value, ml_value) ==
    RAdd(RMul(w_ml, ml_value), RMul(w_expert, expert_value))

\* abs(ml_value - expert_value) / expert_value, evaluated only for
\* expert_value > 0 (the conjunction short-circuits)
Disagreement(expert_value, ml_value) ==
    RDiv(RAbs(RSub(ml_value, expert_value)), expert_value)

\* an override that also fires at a disagreement of exactly 0.3
LargeDiscrepancy_inclusive(expert_value, ml_value, conf) ==
    /\ RGt(expert_value, Zero)
    /\ RGe(Disagreement(expert_value, ml_value), R(3, 10))
    /\ RLt(conf, R(6, 10))

\* an override that divides by abs(expert_value) and only skips zero
LargeDiscrepancy_abs(expert_value, ml_value, conf) ==
    /\ expert_value # Zero
    /\ RGt(RDiv(RAbs(RSub(ml_value, expert_value)), RAbs(expert_value)),
           R(3, 10))
    /\ RLt(conf, R(6, 10))

\* expert_value > 0 and abs(ml_value - expert_value) / expert_value > 0.3
\* and ml_confidence < 0.6
LargeDiscrepancy(expert_value, ml_value, conf) ==
    /\ RGt(expert_value, Zero)
    /\ RGt(Disagreement(expert_value, ml_value), R(3, 10))
    /\ RLt(conf, R(6, 10))

\* lines 238-263: the weighted average and the expert_preferred override
blend_weighted(expert_value, ml_value, conf) ==
    LET w_ml == conf
        w_expert == expert_weight_of(w_ml)
        blended == weighted_average(w_ml, w_expert, expert_value, ml_value)
    IN  IF LargeDiscrepancy(expert_value, ml_value, conf)
        THEN [status |-> "returned", value |-> expert_value,
              info |-> Decision("expert_preferred", One, Zero, conf,
                                expert_value, ml_value)]
        ELSE [status |-> "returned", value |-> blended,
              info |-> Decision("confidence_weighted", w_expert, w_ml, conf,
                                expert_value, ml_value)]

\* blend_predictions; float(ml_confidence) raises on a confidence that is
\* not a number
blend_predictions(expert_value, ml_value, ml_confidence) ==
    IF ml_value = None THEN blend_unavailable(expert_value)
    ELSE IF ~IsNumber(ml_confidence)
    THEN [status |-> "raised", error |-> "TypeError"]
    ELSE LET conf == ClampConfidence(ml_confidence)
         IN  IF LowConfidence(conf)
             THEN blend_low_confidence(expert_value, ml_value, conf)
             ELSE blend_weighted(expert_value, ml_value, conf)

(***************************************************************************)
(* blend_predictions in binary floating point (ml_manager.py)              *)
(***************************************************************************)
\* the bits of a float's significand; a Python float has 53, exponents are
\* taken as unbounded (no overflow to infinity, no subnormal numbers)
Precision == 4

RECURSIVE Pow2(_)
Pow2(k) == IF k = 0 THEN 1 ELSE 2 * Pow2(k - 1)

\* a / d = (a' / d') * scale with 2^(Precision-1) <= a' / d' < 2^Precision
RECURSIVE Normalise(_, _, _)
Normalise(a, d, scale) ==
    IF a >= d * Pow2(Precision)
    THEN Normalise(a, 2 * d, RMul(scale, Num(2)))
    ELSE IF a < d * Pow2(Precision - 1)
    THEN Normalise(2 * a, d, RMul(scale, R(1, 2)))
    ELSE <<a, d, scale>>

\* a / d rounded to the nearest integer, a tie to the even one
HalfEven(a, d) ==
    LET q == a \div d
        r == a % d
    IN  IF 2 * r > d \/ (2 * r = d /\ q % 2 = 1) THEN q + 1 ELSE q

\* the float nearest to the real number x (round to nearest, ties to even):
\* what a float literal denotes and what every float operation returns
Fl(x) ==
    IF x[1] = 0 THEN Zero
    ELSE LET n == Normalise(Abs(x[1]), x[2], One)
             v == RMul(Num(HalfEven(n[1], n[2])), n[3])
         IN  IF x[1] < 0 THEN RNeg(v) ELSE v

\* float * float, float + float, float - float, float / float
FMul(x, y) == Fl(RMul(x, y))
FAdd(x, y) == Fl(RAdd(x, y))
FSub(x, y) == Fl(RSub(x, y))
FDiv(x, y) == Fl(RDiv(x, y))

\* max(0.0, min(float(ml_confidence), 0.95)) with the float 0.95
ClampConfidence_float(c) == RMax(Zero, RMin(c, Fl(R(95, 100))))

\* w_expert = 1 - w_ml, rounded
expert_weight_of_float(w_ml) == FSub(One, w_ml)

\* a rounded weighted average that leaves the predictive value unweighted
weighted_average_float_full_ml(w_ml, w_expert, expert_value, ml_value) ==
    FAdd(ml_value, FMul(w_expert, expert_value))

\* blended = w_ml * ml_value + w_expert * expert_value, each of the three
\* operations rounded
weighted_average_float(w_ml, w_expert, expert_value, ml_value) ==
    FAdd(FMul(w_ml, ml_value), FMul(w_expert, expert_value))

\* expert_value > 0 and abs(ml_value - expert_value) / expert_value > 0.3
\* and ml_confidence < 0.6, with rounded operations and float literals
LargeDiscrepancy_float(expert_value, ml_value, conf) ==
    /\ RGt(expert_value, Zero)
    /\ RGt(FDiv(RAbs(FSub(ml_value, expert_value)), expert_value),
           Fl(R(3, 10)))
    /\ RLt(conf, Fl(R(6, 10)))

\* lines 238-263 in floating point
blend_weighted_float(expert_value, ml_value, conf) ==
    LET w_ml == conf
        w_expert == expert_weight_of_float(w_ml)
        blended == weighted_average_float(w_ml, w_expert, expert_value,
                                          ml_value)
    IN  IF LargeDiscrepancy_float(expert_value, ml_value, conf)
        THEN [status |-> "returned", value |-> expert_value,
              info |-> Decision("expert_preferred", One, Zero, conf,
                                expert_value, ml_value)]
        ELSE [status |-> "returned", value |-> blended,
              info |-> Decision("confidence_weighted", w_expert, w_ml, conf,
                                expert_value, ml_value)]

\* blend_predictions on floats
blend_predictions_float(expert_value, ml_value, ml_confidence) ==
    IF ml_value = None THEN blend_unavailable(expert_value)
    ELSE IF ~IsNumber(ml_confidence)
    THEN [status |-> "raised", error |-> "TypeError"]
    ELSE LET conf == ClampConfidence_float(ml_confidence)
         IN  IF RLe(conf, Fl(R(5, 100)))
             THEN blend_low_confidence(expert_value, ml_value, conf)
             ELSE blend_weighted_float(expert_value, ml_value, conf)

(***************************************************************************)
(* RuleEngine and ValuationTrace (engine.py)                               *)
(***************************************************************************)
EmptyDict == [k \in {} |-> None]

\* RuleEngine._get_default_rules
get_default_rules ==
    [location_base_rates |->
        [premium |-> Num(5000), urban_center |-> Num(4000),
         suburban |-> Num(3000), rural |-> Num(2000), general |-> Num(3000)],
     property_type_factors |->
        [house |-> R(105, 100), flat |-> One, plot |-> R(6, 10),
         commercial |-> R(125, 100)],
     condition_factors |->
        [new |-> R(115, 100), like_new |-> R(105, 100), used_good |-> One,
         needs_renovation |-> R(8, 10)],
     parking_factors |->
        [none |-> One, street |-> R(98, 100), covered |-> R(103, 100),
         garage |-> R(106, 100)],
     age_depreciation |-> [rate_per_year |-> R(5, 1000), min_factor |-> R(6, 10)],
     amenities |-> [base_score |-> Num(3), per_point_adjustment |-> R(3, 100)],
     demand |-> [base_score |-> Num(3), per_point_adjustment |-> R(4, 100)],
     crime |-> [weight |-> R(6, 10)],
     volatility |-> [threshold |-> R(2, 10), max_penalty |-> R(12, 100),
                     weight |-> R(4, 10)],
     development |-> [uplift_weight |-> R(6, 100)],
     price_clamp |-> [max_multiplier |-> R(17, 10), min_multiplier |-> R(4, 10)],
     rent_yields |-> [high_demand |-> R(8, 100), medium_demand |-> R(5, 100),
                      low_demand |-> R(3, 100)],
     floor_adjustments |-> [ground_commercial_bonus |-> R(5, 100),
                            per_floor_bonus |-> R(1, 100),
                            max_floor_bonus |-> R(10, 100)]]

\* a rules.json that only sets the clamp: every other table falls back to
\* the defaults written into evaluate
ClampOnlyRules ==
    [price_clamp |-> [max_multiplier |-> R(15, 10), min_multiplier |-> R(5, 10)]]

\* a rules.json that sets the age, floor, volatility and rent tables to
\* values other than the defaults written into evaluate
TunedRules ==
    [age_depreciation |-> [rate_per_year |-> R(1, 100), min_factor |-> R(1, 2)],
     floor_adjustments |-> [ground_commercial_bonus |-> R(1, 10),
                            per_floor_bonus |-> R(2, 100),
                            max_floor_bonus |-> R(2, 10)],
     volatility |-> [threshold |-> R(1, 4), max_penalty |-> R(1, 10),
                     weight |-> R(1, 2)],
     rent_yields |-> [high_demand |-> R(1, 10), medium_demand |-> R(6, 100),
                      low_demand |-> R(4, 100)]]

\* what json.load returns for a rules.json holding the array [1, 2]: a list,
\* which has no .get; the reserved key tells it from a mapping
JsonArray == [json_array |-> <<Num(1), Num(2)>>]

\* hasattr(rules, 'get')
IsMapping(rs) == "json_array" \notin DOMAIN rs

\* the rules.json documents an engine is constructed on: no file, a file that
\* is not JSON, a JSON array, a JSON object
ConfigDocs == {"absent", "not_json", "json_array", "clamp_only", "tuned"}

\* open(path) and json.load(f) raise on these documents
LoadRaises(doc) == doc \in {"absent", "not_json"}

\* json.load(f) of a document that parses
json_load(doc) ==
    CASE doc = "json_array" -> JsonArray
      [] doc = "tuned" -> TunedRules
      [] OTHER -> ClampOnlyRules

\* RuleEngine._load_rules: try: return json.load(f)
\*                         except: return self._get_default_rules()
load_rules(doc) ==
    IF LoadRaises(doc) THEN get_default_rules ELSE json_load(doc)

\* str.lower() on the spellings the inputs use
Lower(str) ==
    CASE str = "Flat" -> "flat"
      [] str = "HOUSE" -> "house"
      [] str = "Commercial" -> "commercial"
      [] OTHER -> str

\* ValuationTrace.__init__
ValuationTrace == [steps |-> <<>>, base_price |-> Zero, final_price |-> Zero]

\* a step whose delta is only guarded against a zero value_before
add_step_nonzero_guard(trace, rule, factor, value_before, value_after) ==
    LET delta_pct ==
            IF value_before # Zero
            THEN RMul(RDiv(RSub(value_after, value_before), value_before),
                      Num(100))
            ELSE Zero
    IN  [trace EXCEPT !.steps =
            Append(@, [rule |-> rule, factor |-> factor,
                       delta_pct |-> delta_pct,
                       value_before |-> value_before,
                       value_after |-> value_after])]

\* ValuationTrace.add_step (the reason text is not modelled)
add_step(trace, rule, factor, value_before, value_after) ==
    LET delta_pct ==
            IF RGt(value_before, Zero)
            THEN RMul(RDiv(RSub(value_after, value_before), value_before),
                      Num(100))
            ELSE Zero
    IN  [trace EXCEPT !.steps =
            Append(@, [rule |-> rule, factor |-> factor,
                       delta_pct |-> delta_pct,
                       value_before |-> value_before,
                       value_after |-> value_after])]

\* an age factor without the minimum
age_factor_of_unfloored(rs, f) ==
    LET age == Get(f, "age", Num(10))
        age_config == Get(rs, "age_depreciation", EmptyDict)
        age_rate == Get(age_config, "rate_per_year", R(5, 1000))
    IN  RSub(One, RMul(age, age_rate))

\* age_factor = max(1 - age * age_rate, min_age_factor)
\* (engine.py lines 81-85)
age_factor_of(rs, f) ==
    LET age == Get(f, "age", Num(10))
        age_config == Get(rs, "age_depreciation", EmptyDict)
        age_rate == Get(age_config, "rate_per_year", R(5, 1000))
        min_age_factor == Get(age_config, "min_factor", R(6, 10))
    IN  RMax(RSub(One, RMul(age, age_rate)), min_age_factor)

\* base_price_per_sqm * area (engine.py lines 70-97)
base_price_of(rs, f) ==
    LET location == Lower(Get(f, "location", "general"))
        location_rates == Get(rs, "location_base_rates", EmptyDict)
        base_rate == Get(location_rates, location,
                         Get(location_rates, "general", Num(3000)))
        property_type == Lower(Get(f, "property_type", "flat"))
        type_factor == Get(Get(rs, "property_type_factors", EmptyDict),
                           property_type, One)
        age_factor == age_factor_of(rs, f)
        condition == Lower(Get(f, "condition", "used_good"))
        condition_factor == Get(Get(rs, "condition_factors", EmptyDict),
                                condition, One)
        base_price_per_sqm ==
            RMul(RMul(RMul(base_rate, type_factor), age_factor),
                 condition_factor)
        area == Get(f, "area", Num(100))
    IN  RMul(base_price_per_sqm, area)

\* a floor adjustment without the ground-floor commercial case
floor_factor_of_linear_only(rs, f) ==
    LET floor == Get(f, "floor", Num(1))
        floor_config == Get(rs, "floor_adjustments", EmptyDict)
        per_floor == Get(floor_config, "per_floor_bonus", R(1, 100))
        max_bonus == Get(floor_config, "max_floor_bonus", R(10, 100))
    IN  RAdd(One, RMin(RMul(floor, per_floor), max_bonus))

\* the floor adjustment (engine.py lines 103-110)
floor_factor_of(rs, f) ==
    LET property_type == Lower(Get(f, "property_type", "flat"))
        floor == Get(f, "floor", Num(1))
        floor_config == Get(rs, "floor_adjustments", EmptyDict)
    IN  IF property_type = "commercial" /\ floor = Zero
        THEN RAdd(One, Get(floor_config, "ground_commercial_bonus", R(5, 100)))
        ELSE LET per_floor == Get(floor_config, "per_floor_bonus", R(1, 100))
                 max_bonus == Get(floor_config, "max_floor_bonus", R(10, 100))
             IN  RAdd(One, RMin(RMul(floor, per_floor), max_bonus))

parking_factor_of(rs, f) ==
    Get(Get(rs, "parking_factors", EmptyDict),
        Lower(Get(f, "parking", "none")), One)

amenities_factor_of(rs, f) ==
    LET amenities_score == Get(f, "amenities_score", Num(3))
        amenities_config == Get(rs, "amenities", EmptyDict)
        base_amenities == Get(amenities_config, "base_score", Num(3))
        amenities_adj == Get(amenities_config, "per_point_adjustment", R(3, 100))
    IN  RAdd(One, RMul(RSub(amenities_score, base_amenities), amenities_adj))

demand_factor_of(rs, f) ==
    LET demand_score == Get(f, "demand_score", Num(3))
        demand_config == Get(rs, "demand", EmptyDict)
        base_demand == Get(demand_config, "base_score", Num(3))
        demand_adj == Get(demand_config, "per_point_adjustment", R(4, 100))
    IN  RAdd(One, RMul(RSub(demand_score, base_demand), demand_adj))

appreciation_factor_of(f) ==
    RAdd(One, Get(f, "market_appreciation_score", R(3, 100)))

crime_factor_of(rs, f) ==
    LET crime_index == Get(f, "crime_index", R(5, 100))
        crime_weight == Get(Get(rs, "crime", EmptyDict), "weight", R(6, 10))
    IN  RSub(One, RMul(crime_index, crime_weight))

\* a volatility penalty without the cap
vol_factor_of_uncapped(rs, f) ==
    LET volatility == Get(f, "market_volatility", R(1, 10))
        vol_config == Get(rs, "volatility", EmptyDict)
        vol_threshold == Get(vol_config, "threshold", R(2, 10))
        vol_max_penalty == Get(vol_config, "max_penalty", R(12, 100))
        vol_weight == Get(vol_config, "weight", R(4, 10))
    IN  IF RGt(volatility, vol_threshold)
        THEN RSub(One, RMul(volatility, vol_weight))
        ELSE One

\* the volatility penalty (engine.py lines 170-180)
vol_factor_of(rs, f) ==
    LET volatility == Get(f, "market_volatility", R(1, 10))
        vol_config == Get(rs, "volatility", EmptyDict)
        vol_threshold == Get(vol_config, "threshold", R(2, 10))
        vol_max_penalty == Get(vol_config, "max_penalty", R(12, 100))
        vol_weight == Get(vol_config, "weight", R(4, 10))
    IN  IF RGt(volatility, vol_threshold)
        THEN RSub(One, RMin(vol_max_penalty, RMul(volatility, vol_weight)))
        ELSE One

dev_factor_of(rs, f) ==
    LET development_index == Get(f, "development_index", Zero)
        dev_weight == Get(Get(rs, "development", EmptyDict), "uplift_weight",
                          R(6, 100))
    IN  RAdd(One, RMul(development_index, dev_weight))

\* the adjustments with demand applied before amenities
RuleFactors_swapped(rs, f) ==
    << <<"floor_adjustment", floor_factor_of(rs, f)>>,
       <<"parking", parking_factor_of(rs, f)>>,
       <<"demand", demand_factor_of(rs, f)>>,
       <<"amenities", amenities_factor_of(rs, f)>>,
       <<"appreciation", appreciation_factor_of(f)>>,
       <<"crime_penalty", crime_factor_of(rs, f)>>,
       <<"volatility", vol_factor_of(rs, f)>>,
       <<"development", dev_factor_of(rs, f)>> >>

\* the eight adjustments in the order evaluate applies them
RuleFactors(rs, f) ==
    << <<"floor_adjustment", floor_factor_of(rs, f)>>,
       <<"parking", parking_factor_of(rs, f)>>,
       <<"amenities", amenities_factor_of(rs, f)>>,
       <<"demand", demand_factor_of(rs, f)>>,
       <<"appreciation", appreciation_factor_of(f)>>,
       <<"crime_penalty", crime_factor_of(rs, f)>>,
       <<"volatility", vol_factor_of(rs, f)>>,
       <<"development", dev_factor_of(rs, f)>> >>

\* old_price = current_price; current_price *= factor; trace.add_step(...)
RECURSIVE ApplyRules(_, _, _)
ApplyRules(trace, current_price, factors) ==
    IF factors = <<>> THEN [trace |-> trace, current_price |-> current_price]
    ELSE LET rule == Head(factors)[1]
             factor == Head(factors)[2]
             new_price == RMul(current_price, factor)
         IN  ApplyRules(add_step(trace, rule, factor, current_price, new_price),
                        new_price, Tail(factors))

\* clamp_config.get('max_multiplier', 1.7)
max_mult_of(rs) ==
    Get(Get(rs, "price_clamp", EmptyDict), "max_multiplier", R(17, 10))

\* clamp_config.get('min_multiplier', 0.4)
min_mult_of(rs) ==
    Get(Get(rs, "price_clamp", EmptyDict), "min_multiplier", R(4, 10))

\* a clamp without the lower bound
clamp_price_no_floor(rs, base_price, current_price) ==
    RMin(current_price, RMul(base_price, max_mult_of(rs)))

\* final_price = max(min(current_price, base * max_mult), base * min_mult)
clamp_price(rs, base_price, current_price) ==
    RMax(RMin(current_price, RMul(base_price, max_mult_of(rs))),
         RMul(base_price, min_mult_of(rs)))

\* a clamp step that is only logged when the price was lowered
clamp_fires_on_cut(final_price, current_price) ==
    RLt(final_price, current_price)

\* if final_price != current_price
clamp_fires(final_price, current_price) == final_price # current_price

\* final_price / current_price, the factor of the price_clamp step, inverted
clamp_factor_inverse(final_price, current_price) ==
    RDiv(current_price, final_price)

\* final_price / current_price, the factor of the price_clamp step
\* (current_price # 0)
clamp_factor(final_price, current_price) == RDiv(final_price, current_price)

\* the first decimal digits of r/d for 0 <= r < d, one digit at a time:
\* <<digits as an integer, remainder>>
RECURSIVE Digits(_, _, _)
Digits(r, d, places) ==
    IF places = 0 THEN <<0, r>>
    ELSE LET first == (r * 10) \div d
             rest == Digits((r * 10) % d, d, places - 1)
         IN  <<first * Pow10(places - 1) + rest[1], rest[2]>>

\* round(x, 2): the nearest multiple of 0.01, a tie going to the even one
\* (Python rounds the float's exact value; on exact rationals a tie is a tie)
Round2(x) ==
    LET whole == x[1] \div x[2]
        frac == Digits(x[1] % x[2], x[2], 2)
        cents == whole * 100 + frac[1]
        above == FracLt(1, 2, frac[2], x[2])
        tie == frac[2] * 2 = x[2]
        up == above \/ (tie /\ cents % 2 = 1)
    IN  R(cents + (IF up THEN 1 ELSE 0), 100)

\* rent tiers whose high tier starts above 4
rent_yield_of_exclusive(rs, f) ==
    LET demand_score == Get(f, "demand_score", Num(3))
        rent_yields == Get(rs, "rent_yields", EmptyDict)
    IN  IF RGt(demand_score, Num(4))
        THEN Get(rent_yields, "high_demand", R(8, 100))
        ELSE IF RGe(demand_score, Num(2))
        THEN Get(rent_yields, "medium_demand", R(5, 100))
        ELSE Get(rent_yields, "low_demand", R(3, 100))

\* the rent yield tier of the demand score (engine.py lines 209-216)
rent_yield_of(rs, f) ==
    LET demand_score == Get(f, "demand_score", Num(3))
        rent_yields == Get(rs, "rent_yields", EmptyDict)
    IN  IF RGe(demand_score, Num(4))
        THEN Get(rent_yields, "high_demand", R(8, 100))
        ELSE IF RGe(demand_score, Num(2))
        THEN Get(rent_yields, "medium_demand", R(5, 100))
        ELSE Get(rent_yields, "low_demand", R(3, 100))

\* an ROI whose guard lets a negative purchase price through
roi_of_nonzero_guard(f, final_price, estimated_annual_rent) ==
    LET occupancy_rate == Get(f, "occupancy_rate", R(9, 10))
        annual_rent == Get(f, "annual_rent", estimated_annual_rent)
        expenses == Get(f, "expenses", RMul(annual_rent, R(1, 10)))
        purchase_price == Get(f, "purchase_price", final_price)
    IN  IF purchase_price # Zero
        THEN RDiv(RSub(RMul(annual_rent, occupancy_rate), expenses),
                  purchase_price)
        ELSE Zero

\* the ROI of engine.py lines 220-229
roi_of(f, final_price, estimated_annual_rent) ==
    LET occupancy_rate == Get(f, "occupancy_rate", R(9, 10))
        annual_rent == Get(f, "annual_rent", estimated_annual_rent)
        expenses == Get(f, "expenses", RMul(annual_rent, R(1, 10)))
        purchase_price == Get(f, "purchase_price", final_price)
    IN  IF RGt(purchase_price, Zero)
        THEN RDiv(RSub(RMul(annual_rent, occupancy_rate), expenses),
                  purchase_price)
        ELSE Zero

\* condition_risk.get(condition, 0.1)
condition_risk(condition) ==
    CASE condition = "new" -> Zero
      [] condition = "like_new" -> R(5, 100)
      [] condition = "used_good" -> R(10, 100)
      [] condition = "needs_renovation" -> R(25, 100)
      [] OTHER -> R(10, 100)

\* the sum of the six risk contributions (engine.py lines 252-275)
risk_sum(f) ==
    LET crime == RMul(Get(f, "crime_index", R(5, 100)), R(25, 100))
        volatility == RMul(Get(f, "market_volatility", R(1, 10)), R(25, 100))
        economic == RMul(RSub(One, Get(f, "economic_index", R(1, 2))),
                         R(2, 10))
        condition == condition_risk(Get(f, "condition", "used_good"))
        age == RMin(RMul(Get(f, "age", Num(10)), R(2, 1000)), R(15, 100))
        demand == RMax(Zero, RMul(RSub(Num(3), Get(f, "demand_score", Num(3))),
                                  R(5, 100)))
    IN  RAdd(RAdd(RAdd(RAdd(RAdd(crime, volatility), economic), condition),
                  age), demand)

\* a risk score that is the bare sum
calculate_risk_score_unclamped(f) == risk_sum(f)

\* RuleEngine._calculate_risk_score: return min(max(risk, 0), 1)
calculate_risk_score(f) == RMin(RMax(risk_sum(f), Zero), One)

\* the second half of RuleEngine.evaluate (lines 197-248), from the running
\* price after the eight adjustments: the clamp and its step, then rent, ROI
\* and risk and the rounded entries of the returned dictionary.  The division
\* final_price / current_price of the clamp step raises ZeroDivisionError
\* when the running price is zero.  final_price and base_price are the
\* unrounded values that the trace holds; the two forecasts and
\* price_per_sqm are computed from final_price by guarded arithmetic and are
\* not in this record.
finish_evaluation(rs, f, base_price, current_price, trace) ==
    LET final_price == clamp_price(rs, base_price, current_price)
        trace1 == [trace EXCEPT !.final_price = final_price]
        clamped == clamp_fires(final_price, current_price)
        estimated_annual_rent == RMul(final_price, rent_yield_of(rs, f))
        roi == roi_of(f, final_price, estimated_annual_rent)
    IN  IF clamped /\ current_price = Zero
        THEN [status |-> "raised", error |-> "ZeroDivisionError"]
        ELSE [status |-> "returned",
              final_price |-> final_price,
              base_price |-> base_price,
              expert_price |-> Round2(final_price),
              estimated_rent |-> Round2(estimated_annual_rent),
              roi |-> Round2(RMul(roi, Num(100))),
              risk_score |-> Round2(calculate_risk_score(f)),
              trace |-> IF clamped
                        THEN add_step(trace1, "price_clamp",
                                      clamp_factor(final_price, current_price),
                                      current_price, final_price)
                        ELSE trace1]

\* an evaluate that logs the base price as the first step of the trace
evaluate_on_logging_base(rs, f, trace) ==
    IF ~IsMapping(rs)
    THEN [status |-> "raised", error |-> "AttributeError"]
    ELSE LET base_price == base_price_of(rs, f)
             trace0 == add_step([trace EXCEPT !.base_price = base_price],
                                "base_price", base_price, One, base_price)
             adjusted == ApplyRules(trace0, base_price, RuleFactors(rs, f))
         IN  finish_evaluation(rs, f, base_price, adjusted.current_price,
                               adjusted.trace)

\* RuleEngine.evaluate on a given trace object: the base price and the eight
\* adjustments (lines 70-195), then the second half.  self.rules.get raises
\* AttributeError when rules.json held a list.
evaluate_on(rs, f, trace) ==
    IF ~IsMapping(rs)
    THEN [status |-> "raised", error |-> "AttributeError"]
    ELSE LET base_price == base_price_of(rs, f)
             trace0 == [trace EXCEPT !.base_price = base_price]
             adjusted == ApplyRules(trace0, base_price, RuleFactors(rs, f))
         IN  finish_evaluation(rs, f, base_price, adjusted.current_price,
                               adjusted.trace)

\* trace = ValuationTrace() (line 68): every call works on a new trace
evaluate(rs, f) == evaluate_on(rs, f, ValuationTrace)

\* a call that goes on writing into the trace object of the call before
new_trace_shared(objects) ==
    IF objects = <<>> THEN [ref |-> 1, heap |-> <<ValuationTrace>>]
    ELSE [ref |-> Len(objects), heap |-> objects]

\* trace = ValuationTrace() on a heap of trace objects: the new object's
\* reference and the heap that holds it
new_trace(objects) ==
    [ref |-> Len(objects) + 1, heap |-> Append(objects, ValuationTrace)]

\* an evaluate that fills the defaults into the caller's dictionary
\* (features.setdefault instead of features.get)
features_after_setdefault(f) ==
    [k \in DOMAIN f \cup {"location", "property_type"} |->
        IF k \in DOMAIN f THEN f[k]
        ELSE IF k = "location" THEN "general" ELSE "flat"]

\* the caller's attribute set after the call: evaluate and
\* _calculate_risk_score only read it, with features.get
features_after(f) == f

(***************************************************************************)
(* validate_inputs (validator.py)                                          *)
(***************************************************************************)
\* the empty string of a form field
EmptyString == <<"">>

\* value is None or value == ''
Missing(v) == Len(v) = 0 \/ (Len(v) = 1 /\ v[1] = "")

\* float('nan'): what float() makes of the text "nan", a number that is not
\* less than, equal to or greater than any number
NaN == <<0, 0>>

IsNaN(v) == Len(v) = 2 /\ v[2] = 0

\* x < y, x <= y, x > y on floats: False when either side is NaN
FLt(x, y) == ~IsNaN(x) /\ ~IsNaN(y) /\ RLt(x, y)
FLe(x, y) == ~IsNaN(x) /\ ~IsNaN(y) /\ RLe(x, y)
FGt(x, y) == ~IsNaN(x) /\ ~IsNaN(y) /\ RGt(x, y)

\* int(v) returns: v is a number and not NaN (int(float('nan')) raises
\* ValueError like int('abc'))
Integral(v) == IsNumber(v) /\ ~IsNaN(v)

\* int(x) of a number: truncation towards zero
ToInt(x) ==
    IF x[1] >= 0 THEN Num(x[1] \div x[2]) ELSE Num(-((-x[1]) \div x[2]))

\* validator.load_rules: the document, or {} when open/json.load raises
validator_load_rules(doc) ==
    IF LoadRaises(doc) THEN EmptyDict ELSE json_load(doc)

\* list(rules.get(table, {}).keys()), or the built-in list when empty
ValidNames(vrules, table, builtin) ==
    IF DOMAIN Get(vrules, table, EmptyDict) = {} THEN builtin
    ELSE DOMAIN Get(vrules, table, EmptyDict)

\* a score field: the default when missing or not a number, otherwise the
\* value clamped to [lo, hi]
clean_score(v, default, lo, hi) ==
    IF Missing(v) \/ ~IsNumber(v) THEN default
    ELSE IF FLt(v, lo) THEN lo
    ELSE IF FGt(v, hi) THEN hi
    ELSE v

\* occupancy: a value above 1 is read as a percentage first
clean_occupancy(v, default) ==
    IF Missing(v) \/ ~IsNumber(v) THEN default
    ELSE LET rate == IF FGt(v, One) THEN RDiv(v, Num(100)) ELSE v
         IN  IF FLt(rate, Zero) THEN Zero
             ELSE IF FGt(rate, One) THEN One
             ELSE rate

\* bedrooms / bathrooms of a house or flat (lines 83-98, 102-117)
room_errors(v, label) ==
    IF Missing(v) THEN <<>>
    ELSE IF ~Integral(v) THEN <<label \o " must be a valid integer">>
    ELSE IF ToInt(v)[1] < 0 THEN <<label \o " cannot be negative">>
    ELSE <<>>

\* whether validate_inputs performs its early steps without raising:
\* rules.get needs a mapping, and int(bedrooms) / int(bathrooms) of a
\* property that is not a house or flat is not inside a try
validate_raises(vrules, data) ==
    LET property_type == Get(data, "property_type", "")
        residential ==
            /\ property_type # ""
            /\ Lower(property_type) \in
                  ValidNames(vrules, "property_type_factors",
                             {"house", "flat", "plot", "commercial"})
            /\ Lower(property_type) \in {"house", "flat"}
        bad(v) == ~Missing(v) /\ ~Integral(v)
    IN  IF ~IsMapping(vrules) THEN "AttributeError"
        ELSE IF ~residential /\ (bad(Get(data, "bedrooms", None))
                                 \/ bad(Get(data, "bathrooms", None)))
        THEN "ValueError"
        ELSE "no"

\* the warnings of validate_inputs, in the order the code adds them
validation_warnings(vrules, data) ==
    LET raw(k) == Get(data, k, None)
        number(k) == ~Missing(raw(k)) /\ IsNumber(raw(k))
        property_type == Get(data, "property_type", "")
        residential ==
            /\ property_type # ""
            /\ Lower(property_type) \in
                  ValidNames(vrules, "property_type_factors",
                             {"house", "flat", "plot", "commercial"})
            /\ Lower(property_type) \in {"house", "flat"}
        condition == Get(data, "condition", "")
        parking == Get(data, "parking", "")
        when(cond, text) == IF cond THEN <<text>> ELSE <<>>
        room(k, limit, missing, high) ==
            IF ~residential THEN <<>>
            ELSE IF Missing(raw(k)) THEN <<missing>>
            ELSE when(Integral(raw(k)) /\ ToInt(raw(k))[1] > limit, high)
    IN  (IF ~number("area") \/ FLe(raw("area"), Zero) THEN <<>>
         ELSE IF FLt(raw("area"), Num(5))
         THEN <<"Area is very small (< 5 sqm)">>
         ELSE when(FGt(raw("area"), Num(50000)),
                   "Area is very large (> 50,000 sqm) - please verify"))
        \o when(Get(data, "location", "") = "",
                "Location not specified - using 'general' baseline")
        \o room("bedrooms", 20,
                "Bedrooms not specified for residential property",
                "Unusually high number of bedrooms (> 20)")
        \o room("bathrooms", 15,
                "Bathrooms not specified for residential property",
                "Unusually high number of bathrooms (> 15)")
        \o when(condition # ""
                /\ Lower(condition) \notin
                      ValidNames(vrules, "condition_factors",
                                 {"new", "like_new", "used_good",
                                  "needs_renovation"}),
                "Unknown condition - using 'used_good'")
        \o (IF Missing(raw("age")) THEN <<>>
            ELSE IF ~Integral(raw("age"))
            THEN <<"Invalid age - using default">>
            ELSE when(ToInt(raw("age"))[1] > 200,
                      "Property age > 200 years - please verify"))
        \o (IF ~number("floor") \/ IsNaN(raw("floor")) THEN <<>>
            ELSE IF ToInt(raw("floor"))[1] < -5
            THEN <<"Floor level below -5 is unusual">>
            ELSE when(ToInt(raw("floor"))[1] > 200,
                      "Floor level > 200 is unusual"))
        \o when(parking # ""
                /\ Lower(parking) \notin
                      ValidNames(vrules, "parking_factors",
                                 {"none", "street", "covered", "garage"}),
                "Unknown parking type - using 'none'")
        \o (IF Missing(raw("purchase_price")) THEN <<>>
            ELSE IF ~IsNumber(raw("purchase_price"))
            THEN <<"Invalid purchase price - ignoring">>
            ELSE when(FLe(raw("purchase_price"), Zero),
                      "Purchase price should be positive"))
        \o (IF Missing(raw("current_price")) THEN <<>>
            ELSE IF ~IsNumber(raw("current_price"))
            THEN <<"Invalid current price - ignoring">>
            ELSE when(FLe(raw("current_price"), Zero),
                      "Current price should be positive"))
        \o (IF Missing(raw("annual_rent")) THEN <<>>
            ELSE IF ~IsNumber(raw("annual_rent"))
            THEN <<"Invalid annual rent - ignoring">>
            ELSE when(FLt(raw("annual_rent"), Zero),
                      "Annual rent cannot be negative"))
        \o when(number("expenses") /\ FLt(raw("expenses"), Zero),
                "Expenses cannot be negative")
        \o when(number("current_price") /\ number("purchase_price")
                /\ FLt(raw("current_price"), raw("purchase_price")),
                "Current price is less than purchase price - potential loss")

\* validate_inputs on a call that does not raise: the errors and warnings
\* in the order the code adds them, and cleaned_data
validate_inputs(vrules, data) ==
    LET defaults == Get(vrules, "defaults", EmptyDict)
        raw(k) == Get(data, k, None)
        number(k) == ~Missing(raw(k)) /\ IsNumber(raw(k))
        area == raw("area")
        property_type == Get(data, "property_type", "")
        valid_types == ValidNames(vrules, "property_type_factors",
                                  {"house", "flat", "plot", "commercial"})
        type_ok == property_type # "" /\ Lower(property_type) \in valid_types
        residential == type_ok /\ Lower(property_type) \in {"house", "flat"}
        location == Get(data, "location", "")
        condition == Get(data, "condition", "")
        valid_conditions ==
            ValidNames(vrules, "condition_factors",
                       {"new", "like_new", "used_good", "needs_renovation"})
        parking == Get(data, "parking", "")
        valid_parking == ValidNames(vrules, "parking_factors",
                                    {"none", "street", "covered", "garage"})
        age == raw("age")
        floor == raw("floor")
        rooms(k) ==
            IF residential
            THEN IF Missing(raw(k)) THEN Zero
                 ELSE RMax(Zero, ToInt(raw(k)))
            ELSE IF Missing(raw(k)) \/ raw(k) = Zero THEN Zero
                 ELSE ToInt(raw(k))
        optional == {k \in {"purchase_price", "current_price", "annual_rent",
                            "expenses"} : number(k)}
        keys == {"location", "condition", "age", "floor", "parking",
                 "amenities_score", "demand_score", "occupancy_rate",
                 "market_appreciation_score", "crime_index",
                 "market_volatility", "economic_index", "development_index"}
                \cup (IF number("area") THEN {"area"} ELSE {})
                \cup (IF type_ok THEN {"property_type"} ELSE {})
                \cup {k \in {"bedrooms", "bathrooms"} :
                        ~residential \/ Missing(raw(k)) \/ Integral(raw(k))}
                \cup optional
        value(k) ==
            CASE k = "area" -> area
              [] k = "property_type" -> Lower(property_type)
              [] k = "location" ->
                    IF location = "" THEN Get(defaults, "location", "general")
                    ELSE location
              [] k \in {"bedrooms", "bathrooms"} -> rooms(k)
              [] k = "condition" ->
                    IF condition = ""
                    THEN Lower(Get(defaults, "condition", "used_good"))
                    ELSE IF Lower(condition) \notin valid_conditions
                    THEN "used_good"
                    ELSE Lower(condition)
              [] k = "age" ->
                    IF Missing(age) \/ ~Integral(age)
                    THEN Get(defaults, "age", Num(10))
                    ELSE RMax(Zero, ToInt(age))
              [] k = "floor" ->
                    IF Missing(floor) \/ ~Integral(floor)
                    THEN Get(defaults, "floor", Num(1))
                    ELSE ToInt(floor)
              [] k = "parking" ->
                    IF parking = ""
                    THEN Lower(Get(defaults, "parking", "none"))
                    ELSE IF Lower(parking) \notin valid_parking THEN "none"
                    ELSE Lower(parking)
              [] k = "amenities_score" ->
                    clean_score(raw(k), Get(defaults, k, Num(3)), Zero, Num(5))
              [] k = "demand_score" ->
                    clean_score(raw(k), Get(defaults, k, Num(3)), Zero, Num(5))
              [] k = "occupancy_rate" ->
                    clean_occupancy(raw(k), Get(defaults, k, R(9, 10)))
              [] k = "market_appreciation_score" ->
                    clean_score(raw(k), Get(defaults, k, R(3, 100)),
                                R(-1, 2), R(1, 2))
              [] k = "crime_index" ->
                    clean_score(raw(k), Get(defaults, k, R(5, 100)), Zero, One)
              [] k = "market_volatility" ->
                    clean_score(raw(k), Get(defaults, k, R(1, 10)), Zero, One)
              [] k = "economic_index" ->
                    clean_score(raw(k), Get(defaults, k, R(1, 2)), Zero, One)
              [] k = "development_index" ->
                    clean_score(raw(k), Get(defaults, k, Zero), Zero, One)
              [] OTHER -> raw(k)
        errors ==
            (IF Missing(area) THEN <<"Area (sqm) is required">>
             ELSE IF ~IsNumber(area) THEN <<"Area must be a valid number">>
             ELSE IF FLe(area, Zero) THEN <<"Area must be greater than 0">>
             ELSE <<>>)
            \o (IF property_type = "" THEN <<"Property type is required">>
                ELSE IF ~type_ok THEN <<"Property type must be one of">>
                ELSE <<>>)
            \o (IF residential THEN room_errors(raw("bedrooms"), "Bedrooms")
                ELSE <<>>)
            \o (IF residential THEN room_errors(raw("bathrooms"), "Bathrooms")
                ELSE <<>>)
            \o (IF ~Missing(age) /\ Integral(age) /\ ToInt(age)[1] < 0
                THEN <<"Age cannot be negative">> ELSE <<>>)
    IN  [errors |-> errors,
         warnings |-> validation_warnings(vrules, data),
         cleaned_data |-> [k \in keys |-> value(k)]]

(***************************************************************************)
(* MLModelManager and the synthetic predictions (ml_manager.py)            *)
(***************************************************************************)
MODEL_NAMES ==
    {"price", "rent", "roi", "risk", "future_price_1yr", "future_price_3yr"}

\* the numeric entries of the feature vector: key, expected range, default
\* of _prepare_features
ExpectedRanges ==
    << <<"area", Num(5), Num(50000), Num(100)>>,
       <<"bedrooms", Zero, Num(10), Num(2)>>,
       <<"bathrooms", Zero, Num(10), Num(1)>>,
       <<"age", Zero, Num(200), Num(10)>>,
       <<"floor", Num(-5), Num(100), Num(1)>>,
       <<"amenities_score", Zero, Num(5), Num(3)>>,
       <<"demand_score", Zero, Num(5), Num(3)>>,
       <<"occupancy_rate", Zero, One, R(9, 10)>>,
       <<"market_appreciation_score", R(-1, 2), R(1, 2), R(3, 100)>>,
       <<"crime_index", Zero, One, R(5, 100)>>,
       <<"market_volatility", Zero, One, R(1, 10)>>,
       <<"economic_index", Zero, One, R(1, 2)>>,
       <<"development_index", Zero, One, Zero>> >>

\* the encoded entries are always inside their ranges: every _encode_* maps
\* into its range
EncodedInRange ==
    Cardinality({"property_type", "condition", "parking", "location"})

\* MLModelManager._calculate_confidence on the prepared feature vector
calculate_confidence(f) ==
    LET in_range_count ==
            EncodedInRange
            + Cardinality({i \in DOMAIN ExpectedRanges :
                  LET v == Get(f, ExpectedRanges[i][1], ExpectedRanges[i][4])
                  IN  RLe(ExpectedRanges[i][2], v)
                      /\ RLe(v, ExpectedRanges[i][3])})
        base_confidence ==
            R(in_range_count, EncodedInRange + Len(ExpectedRanges))
        confidence == RAdd(RMul(base_confidence, R(85, 100)), R(1, 10))
    IN  RMin(RMax(confidence, R(1, 10)), R(95, 100))

\* MLModelManager.predict_with_confidence; prediction is what model.predict
\* yields when it does not raise
predict_with_confidence(mgr, model_name, f, prediction) ==
    IF model_name \notin mgr.loaded
    THEN [prediction |-> None, confidence |-> Zero]
    ELSE IF model_name \in mgr.failing
    THEN [prediction |-> None, confidence |-> Zero]
    ELSE [prediction |-> prediction, confidence |-> calculate_confidence(f)]

\* MLModelManager.predict_all: one entry per model name
predict_all(mgr, f, predictions) ==
    [name \in MODEL_NAMES |->
        LET p == predict_with_confidence(mgr, name, f, predictions[name])
        IN  [prediction |-> p.prediction, confidence |-> p.confidence,
             available |-> p.prediction # None]]

\* a manager that does not record the error of a failed inference
manager_after_predict_all_silent(mgr) == mgr

\* the manager after predict_all
manager_after_predict_all(mgr) ==
    [mgr EXCEPT !.last_error = @ \cup (mgr.loaded \cap mgr.failing)]

\* synthetic predictions whose price moves twice as far as the draw
generate_synthetic_ml_predictions_wide(expert_result, variation, confidence) ==
    [name \in MODEL_NAMES |->
        [prediction |->
            IF name = "price"
            THEN Round2(RMul(expert_result.expert_price,
                             RAdd(One, RMul(Num(2), variation))))
            ELSE IF name = "rent" THEN expert_result.estimated_rent
            ELSE IF name = "roi" THEN RMax(Zero, expert_result.roi)
            ELSE IF name = "risk" THEN expert_result.risk_score
            ELSE expert_result.expert_price,
         confidence |-> IF name = "price" THEN confidence ELSE R(1, 2),
         available |-> TRUE,
         synthetic |-> TRUE]]

\* generate_synthetic_ml_predictions: the price entry is the expert price
\* moved by a random variation in [-0.15, 0.15], with a random confidence in
\* [0.65, 0.90]; the other entries are formed the same way from the other
\* expert quantities and are kept here at the expert quantity itself
generate_synthetic_ml_predictions(expert_result, variation, confidence) ==
    [name \in MODEL_NAMES |->
        [prediction |->
            IF name = "price"
            THEN Round2(RMul(expert_result.expert_price, RAdd(One, variation)))
            ELSE IF name = "rent" THEN expert_result.estimated_rent
            ELSE IF name = "roi" THEN RMax(Zero, expert_result.roi)
            ELSE IF name = "risk" THEN expert_result.risk_score
            ELSE expert_result.expert_price,
         confidence |-> IF name = "price" THEN confidence ELSE R(1, 2),
         available |-> TRUE,
         synthetic |-> TRUE]]

(***************************************************************************)
(* run_evaluation (app.py)                                                 *)
(***************************************************************************)
\* any(r.get('available', False) for r in ml_results.values())
any_available(ml_results) ==
    \E name \in DOMAIN ml_results : ml_results[name].available

\* a pipeline that goes on after validation errors
proceeds_after_validation_always(validation) == TRUE

\* if not validation.is_valid: return None, errors, warnings
proceeds_after_validation(validation) == validation.errors = <<>>

\* a pipeline that substitutes synthetic predictions whenever the price
\* prediction is missing
substitutes_synthetic_for_price(ml_results) ==
    ~ml_results["price"].available

\* if not any_available: ml_results = generate_synthetic_ml_predictions(...)
substitutes_synthetic(ml_results) == ~any_available(ml_results)

(***************************************************************************)
(* Inputs of the engine: attribute sets that satisfy the validation        *)
(* contract, with any key possibly absent, and the rule configurations     *)
(***************************************************************************)
FeatureKeys == {"area", "property_type", "location", "condition", "age",
                "floor", "parking", "amenities_score", "demand_score",
                "market_appreciation_score", "crime_index",
                "market_volatility", "development_index"}

\* the attribute set whose every adjustment factor is 1
Baseline ==
    [area |-> Num(1), property_type |-> "flat", location |-> "general",
     condition |-> "used_good", age |-> Zero, floor |-> Zero,
     parking |-> "none", amenities_score |-> Num(3), demand_score |-> Num(3),
     market_appreciation_score |-> Zero, crime_index |-> Zero,
     market_volatility |-> R(1, 10), development_index |-> Zero]

\* the other values an attribute takes, all inside the validated ranges
Alternatives ==
    [area |-> <<Num(50)>>,
     property_type |-> <<"commercial", "house", "Commercial">>,
     location |-> <<"premium", "downtown">>,
     condition |-> <<"new", "needs_renovation">>,
     age |-> <<Num(10), Num(100)>>,
     floor |-> <<Num(-200), Num(-100), Num(1), Num(10), Num(20)>>,
     parking |-> <<"garage">>,
     amenities_score |-> <<Num(5), Zero>>,
     demand_score |-> <<Num(5), Zero>>,
     market_appreciation_score |-> <<R(1, 2), R(-1, 2)>>,
     crime_index |-> <<One, R(1, 2)>>,
     market_volatility |-> <<R(1, 2), R(1, 4), R(2, 10)>>,
     development_index |-> <<One>>]

\* how many attributes of one attribute set differ from the baseline
MaxVaried == 2

MaxAlternatives == 5

\* choice[k] = 0 leaves key k out of the attribute set (evaluate then uses
\* its own default); choice[k] = i > 0 takes the i-th alternative
Variant(S, choice) ==
    [k \in FeatureKeys \ {j \in S : choice[j] = 0} |->
        IF k \in S THEN Alternatives[k][choice[k]] ELSE Baseline[k]]

\* the sets of keys on which an attribute set differs from the baseline
VariedKeys == { T \in SUBSET FeatureKeys : Cardinality(T) <= MaxVaried }

Choices(S) ==
    { c \in [S -> 0..MaxAlternatives] : \A k \in S : c[k] <= Len(Alternatives[k]) }

\* attribute sets that differ from the baseline on the keys the risk score
\* reads: each key is absent (choice 0) or takes one of these values
RiskAlternatives ==
    [crime_index |-> <<One>>,
     market_volatility |-> <<One>>,
     economic_index |-> <<Zero, One>>,
     condition |-> <<"new", "needs_renovation">>,
     age |-> <<Num(100)>>,
     demand_score |-> <<Zero, Num(5)>>]

\* attribute sets that differ from the baseline on the keys rent and ROI read
FinancialAlternatives ==
    [occupancy_rate |-> <<Zero, R(1, 2), One>>,
     annual_rent |-> <<Num(240)>>,
     expenses |-> <<Zero, Num(60)>>,
     purchase_price |-> <<Num(-1000), Zero, Num(2000)>>,
     demand_score |-> <<Num(1), Num(2), Num(4)>>]

Profile(alts, choice) ==
    [k \in (FeatureKeys \cup DOMAIN alts) \ {j \in DOMAIN alts : choice[j] = 0} |->
        IF k \in DOMAIN alts THEN alts[k][choice[k]] ELSE Baseline[k]]

ProfileChoices(alts) ==
    { c \in [DOMAIN alts -> 0..MaxAlternatives] :
        \A k \in DOMAIN alts : c[k] <= Len(alts[k]) }

\* the attribute sets of consecutive calls on one engine: the baseline, a
\* running price of zero, a negative running price, a price above the upper
\* clamp, and a set that leaves three keys to evaluate's defaults
TraceFeatures ==
    {Baseline,
     [Baseline EXCEPT !.floor = Num(-100)],
     [Baseline EXCEPT !.floor = Num(-200)],
     [Baseline EXCEPT !.floor = Num(10), !.demand_score = Num(5),
                      !.market_appreciation_score = R(1, 2)],
     [k \in FeatureKeys \ {"location", "condition", "parking"} |->
        Baseline[k]]}

\* how many consecutive calls one engine instance receives
MaxCalls == 2

(***************************************************************************)
(* Inputs of the pipeline: the form data, the model files, the outputs of  *)
(* the models and of the random generator                                  *)
(***************************************************************************)
\* the raw form data: each of these keys is absent (choice 0) or takes one
\* of these values, valid or not; every other key has its baseline value
RawAlternatives ==
    [area |-> <<Num(1), Zero, NotANumber, EmptyString, Num(50)>>,
     property_type |-> <<"Flat", "castle", "commercial">>,
     bedrooms |-> <<Num(-1), NotANumber>>,
     age |-> <<Num(-3)>>,
     floor |-> <<Num(-100), Num(2)>>]

RawData(choice) ==
    [k \in (FeatureKeys \cup DOMAIN RawAlternatives \cup {"bathrooms"})
            \ {j \in DOMAIN RawAlternatives : choice[j] = 0} |->
        IF k \in DOMAIN RawAlternatives THEN RawAlternatives[k][choice[k]]
        ELSE IF k = "bathrooms" THEN Num(1)
        ELSE Baseline[k]]

\* the ML manager before MLModelManager() ran
NotConstructed ==
    [constructed |-> FALSE, loaded |-> {}, failing |-> {}, last_error |-> {}]

\* the managers _load_models can build: which model files loaded, and which
\* of the loaded models raise at inference
ManagerStates ==
    { [constructed |-> TRUE, loaded |-> m[1], failing |-> m[2],
       last_error |-> {}] :
        m \in { <<{}, {}>>, <<{"price"}, {}>>, <<{"price"}, {"price"}>>,
                <<{"rent"}, {}>>, <<MODEL_NAMES, {"price"}>> } }

\* what the environment contributes to one request: the output of the price
\* model (used when it is loaded and does not raise) and the two draws of
\* generate_synthetic_ml_predictions for the price entry,
\* random.uniform(-0.15, 0.15) and random.uniform(0.65, 0.90) (used when no
\* model is available)
Draws ==
    { [price |-> Num(2500), variation |-> R(-15, 100), confidence |-> R(65, 100)],
      [price |-> Num(6000), variation |-> R(15, 100), confidence |-> R(9, 10)],
      [price |-> Num(3000), variation |-> Zero, confidence |-> R(9, 10)] }

\* the other models' outputs are not used by run_evaluation beyond their
\* availability
OtherPrediction == Num(1)

\* the form fields validate_inputs is called with on its own: each edited
\* field is absent (choice 0) or takes one of these values, in range, out of
\* range, a percentage, text that float() reads as NaN or does not read at
\* all; every other field has its baseline value
FormAlternatives ==
    [area |-> <<Num(1), Zero, NaN, NotANumber>>,
     property_type |-> <<"Flat", "castle">>,
     age |-> <<Num(-3), R(7, 2), NaN>>,
     amenities_score |-> <<Num(7), EmptyString>>,
     demand_score |-> <<Num(-1), NaN>>,
     occupancy_rate |-> <<Num(150), Num(50), Num(-1), R(1, 2)>>,
     market_appreciation_score |-> <<One, Num(-1)>>,
     crime_index |-> <<R(3, 2), NaN>>,
     market_volatility |-> <<Num(-1), R(1, 2)>>,
     economic_index |-> <<Num(2), NotANumber>>,
     development_index |-> <<Num(2), Num(-1)>>]

\* how many fields of one form differ from the baseline
MaxEdited == 2

EditedFields ==
    { T \in SUBSET DOMAIN FormAlternatives : Cardinality(T) <= MaxEdited }

FormChoices(S) ==
    { c \in [S -> 0..MaxAlternatives] :
        \A k \in S : c[k] <= Len(FormAlternatives[k]) }

FormData(S, choice) ==
    [k \in (FeatureKeys \cup S) \ {j \in S : choice[j] = 0} |->
        IF k \in S THEN FormAlternatives[k][choice[k]] ELSE Baseline[k]]

(***************************************************************************)
(* Inputs of the arbiter                                                   *)
(***************************************************************************)
ExpertValues == {Num(-100000), Zero, Num(100000), Num(200000)}

MlValues == {None, Num(70000), Num(110000), Num(130000), Num(130001),
             Num(300000)}

Confidences == {R(-1, 2), Zero, R(3, 100), R(5, 100), R(6, 100), R(4, 10),
                R(1, 2), R(59, 100), R(6, 10), R(9, 10), R(95, 100), One,
                R(3, 2), NotANumber}

\* the same kinds of arguments as floats: each is the float nearest to a
\* decimal value
FloatExpertValues ==
    {Fl(x) : x \in {Num(-7), Zero, R(27, 10), Num(3), Num(5), Num(13)}}

FloatMlValues ==
    {None} \cup {Fl(x) : x \in {R(27, 10), Num(3), Num(5), Num(10), Num(13)}}

FloatConfidences ==
    {Fl(x) : x \in {R(-1, 2), R(3, 100), R(3, 10), R(4, 10), R(1, 2),
                    R(8, 10), R(9, 10), R(3, 2)}} \cup {NotANumber}

NoCall == [status |-> "none"]

Init ==
    /\ config_doc \in ConfigDocs
    /\ rules = load_rules(config_doc)
    /\ pc = "idle"
    /\ features = None
    /\ result = NoCall
    /\ blend_in = None
    /\ blend_out = NoCall
    /\ heap = <<>>
    /\ calls = <<>>
    /\ frame = None
    /\ models = NotConstructed
    /\ run_in = None
    /\ run = NoCall
    /\ run_out = NoCall

\* one call of RuleEngine.evaluate on the engine's configuration
Evaluate ==
    /\ pc = "idle"
    /\ \/ \E S \in VariedKeys : \E choice \in Choices(S) :
             features' = Variant(S, choice)
       \/ \E choice \in ProfileChoices(RiskAlternatives) :
             features' = Profile(RiskAlternatives, choice)
       \/ \E choice \in ProfileChoices(FinancialAlternatives) :
             features' = Profile(FinancialAlternatives, choice)
    /\ result' = evaluate(rules, features')
    /\ pc' = "evaluated"
    /\ UNCHANGED <<config_doc, rules, blend_in, blend_out, heap, calls, frame,
                   models, run_in, run, run_out>>

\* one call of blend_predictions
Blend ==
    /\ pc = "idle"
    /\ \E e \in ExpertValues, m \in MlValues, c \in Confidences :
          /\ blend_in' = [expert_value |-> e, ml_value |-> m,
                          ml_confidence |-> c]
          /\ blend_out' = blend_predictions(e, m, c)
    /\ pc' = "blended"
    /\ UNCHANGED <<config_doc, rules, features, result, heap, calls, frame,
                   models, run_in, run, run_out>>

\* one call of blend_predictions on floats
BlendFloat ==
    /\ pc = "idle"
    /\ \E e \in FloatExpertValues, m \in FloatMlValues,
          c \in FloatConfidences :
          /\ blend_in' = [expert_value |-> e, ml_value |-> m,
                          ml_confidence |-> c]
          /\ blend_out' = blend_predictions_float(e, m, c)
    /\ pc' = "blended"
    /\ UNCHANGED <<config_doc, rules, features, result, heap, calls, frame,
                   models, run_in, run, run_out>>

\* the caller is done with the outcome of the call and may call again
Done ==
    /\ pc \in {"evaluated", "blended", "ran", "checked"}
    /\ pc' = "idle"
    /\ features' = None
    /\ result' = NoCall
    /\ blend_in' = None
    /\ blend_out' = NoCall
    /\ run_in' = None
    /\ run' = NoCall
    /\ run_out' = NoCall
    /\ UNCHANGED <<config_doc, rules, heap, calls, frame, models>>

\* RuleEngine.evaluate step by step, on a heap of trace objects.  Call is
\* lines 68-100: the new trace, the base price, trace.base_price.
Call ==
    /\ pc = "idle"
    /\ Len(calls) < MaxCalls
    /\ \E f \in TraceFeatures :
          LET nt == new_trace(heap)
          IN  IF ~IsMapping(rules)
              THEN /\ heap' = nt.heap
                   /\ calls' = Append(calls,
                         [passed |-> f, held |-> features_after(f),
                          ref |-> nt.ref,
                          result |-> [status |-> "raised",
                                      error |-> "AttributeError"]])
                   /\ frame' = None
                   /\ pc' = "idle"
              ELSE LET base_price == base_price_of(rules, f)
                   IN  /\ heap' = [nt.heap EXCEPT
                                      ![nt.ref].base_price = base_price]
                       /\ frame' = [features |-> f, ref |-> nt.ref,
                                    base_price |-> base_price,
                                    current_price |-> base_price,
                                    applied |-> 0]
                       /\ calls' = calls
                       /\ pc' = "adjusting"
    /\ UNCHANGED <<config_doc, rules, features, result, blend_in, blend_out,
                   models, run_in, run, run_out>>

\* the next of the eight adjustments (lines 102-195): old_price =
\* current_price; current_price *= factor; trace.add_step(...)
Step ==
    /\ pc = "adjusting"
    /\ frame.applied < Len(RuleFactors(rules, frame.features))
    /\ LET k == frame.applied + 1
           rule == RuleFactors(rules, frame.features)[k]
           new_price == RMul(frame.current_price, rule[2])
       IN  /\ heap' = [heap EXCEPT ![frame.ref] =
                          add_step(@, rule[1], rule[2], frame.current_price,
                                   new_price)]
           /\ frame' = [frame EXCEPT !.current_price = new_price,
                                     !.applied = k]
    /\ UNCHANGED <<config_doc, rules, pc, features, result, blend_in,
                   blend_out, calls, models, run_in, run, run_out>>

\* lines 197-248: the clamp, its step, the returned dictionary (or the error
\* of the clamp ratio, raised after trace.final_price was set)
Return ==
    /\ pc = "adjusting"
    /\ frame.applied = Len(RuleFactors(rules, frame.features))
    /\ LET res == finish_evaluation(rules, frame.features, frame.base_price,
                                    frame.current_price, heap[frame.ref])
       IN  /\ heap' = [heap EXCEPT ![frame.ref] =
                          IF res.status = "returned" THEN res.trace
                          ELSE [@ EXCEPT !.final_price =
                                   clamp_price(rules, frame.base_price,
                                               frame.current_price)]]
           /\ calls' = Append(calls,
                 [passed |-> frame.features,
                  held |-> features_after(frame.features),
                  ref |-> frame.ref, result |-> res])
    /\ frame' = None
    /\ pc' = "idle"
    /\ UNCHANGED <<config_doc, rules, features, result, blend_in, blend_out,
                   models, run_in, run, run_out>>

\* MLModelManager() at session start: _load_models
LoadModels ==
    /\ pc = "idle"
    /\ ~models.constructed
    /\ models' \in ManagerStates
    /\ UNCHANGED <<config_doc, rules, pc, features, result, blend_in,
                   blend_out, heap, calls, frame, run_in, run, run_out>>

\* run_evaluation, first step: validation = validate_inputs(inputs).  The
\* validator reads the same rules.json as the engine.
Validate ==
    /\ pc = "idle"
    /\ models.constructed
    /\ \E choice \in ProfileChoices(RawAlternatives), draw \in Draws :
          run_in' = [data |-> RawData(choice), draw |-> draw]
    /\ LET vrules == validator_load_rules(config_doc)
           raises == validate_raises(vrules, run_in'.data)
       IN  IF raises # "no"
           THEN /\ run' = NoCall
                /\ run_out' = [status |-> "raised", error |-> raises]
                /\ pc' = "ran"
           ELSE /\ run' = [validation |-> validate_inputs(vrules, run_in'.data)]
                /\ run_out' = NoCall
                /\ pc' = "validated"
    /\ UNCHANGED <<config_doc, rules, features, result, blend_in, blend_out,
                   heap, calls, frame, models>>

\* if not validation.is_valid: return None, validation.errors,
\* validation.warnings
ReturnErrors ==
    /\ pc = "validated"
    /\ ~proceeds_after_validation(run.validation)
    /\ run_out' = [status |-> "returned", valid |-> FALSE,
                   errors |-> run.validation.errors,
                   warnings |-> run.validation.warnings]
    /\ pc' = "ran"
    /\ UNCHANGED <<config_doc, rules, features, result, blend_in, blend_out,
                   heap, calls, frame, models, run_in, run>>

\* expert_result = rule_engine.evaluate(validation.cleaned_data); an error
\* of evaluate leaves run_evaluation
CallEvaluate ==
    /\ pc = "validated"
    /\ proceeds_after_validation(run.validation)
    /\ LET expert_result == evaluate(rules, run.validation.cleaned_data)
       IN  IF expert_result.status = "raised"
           THEN /\ run' = run
                /\ run_out' = [status |-> "raised",
                               error |-> expert_result.error]
                /\ pc' = "ran"
           ELSE /\ run' = [validation |-> run.validation,
                           expert_result |-> expert_result]
                /\ run_out' = NoCall
                /\ pc' = "expert_done"
    /\ UNCHANGED <<config_doc, rules, features, result, blend_in, blend_out,
                   heap, calls, frame, models, run_in>>

\* ml_results = ml_manager.predict_all(validation.cleaned_data), replaced
\* by the synthetic predictions when no entry is available
CallPredictAll ==
    /\ pc = "expert_done"
    /\ LET predictions == [name \in MODEL_NAMES |->
                              IF name = "price" THEN run_in.draw.price
                              ELSE OtherPrediction]
           predicted == predict_all(models, run.validation.cleaned_data,
                                    predictions)
       IN  run' = [validation |-> run.validation,
                   expert_result |-> run.expert_result,
                   predicted |-> predicted,
                   ml_results |->
                       IF substitutes_synthetic(predicted)
                       THEN generate_synthetic_ml_predictions(
                                run.expert_result, run_in.draw.variation,
                                run_in.draw.confidence)
                       ELSE predicted]
    /\ models' = manager_after_predict_all(models)
    /\ pc' = "predicted"
    /\ UNCHANGED <<config_doc, rules, features, result, blend_in, blend_out,
                   heap, calls, frame, run_in, run_out>>

\* final_price, blend_info = blend_predictions(expert_price, ml_price,
\* ml_confidence); return result, [], validation.warnings
CallBlend ==
    /\ pc = "predicted"
    /\ LET blended == blend_predictions(run.expert_result.expert_price,
                                        run.ml_results["price"].prediction,
                                        run.ml_results["price"].confidence)
       IN  run_out' = [status |-> "returned", valid |-> TRUE,
                       errors |-> <<>>,
                       warnings |-> run.validation.warnings,
                       features |-> run.validation.cleaned_data,
                       expert_result |-> run.expert_result,
                       ml_results |-> run.ml_results,
                       final_price |-> blended.value,
                       blend_info |-> blended.info]
    /\ pc' = "ran"
    /\ UNCHANGED <<config_doc, rules, features, result, blend_in, blend_out,
                   heap, calls, frame, models, run_in, run>>

Next ==
    \/ Evaluate
    \/ Blend
    \/ Done

Spec == Init /\ [][Next]_vars

\* the arbiter on its own
NextBlend ==
    \/ Blend
    \/ Done

SpecBlend == Init /\ [][NextBlend]_vars

\* the arbiter on floats
NextBlendFloat ==
    \/ BlendFloat
    \/ Done

SpecBlendFloat == Init /\ [][NextBlendFloat]_vars

\* consecutive calls of evaluate on one engine, step by step
NextTrace ==
    \/ Call
    \/ Step
    \/ Return

SpecTrace == Init /\ [][NextTrace]_vars

\* one call of validate_inputs on its own; rules.get raises AttributeError
\* when rules.json held a list
ValidateForm ==
    /\ pc = "idle"
    /\ \E S \in EditedFields : \E choice \in FormChoices(S) :
          run_in' = [data |-> FormData(S, choice)]
    /\ LET vrules == validator_load_rules(config_doc)
           raises == validate_raises(vrules, run_in'.data)
       IN  IF raises # "no"
           THEN /\ run' = NoCall
                /\ run_out' = [status |-> "raised", error |-> raises]
           ELSE /\ run' = [validation |-> validate_inputs(vrules, run_in'.data)]
                /\ run_out' = NoCall
    /\ pc' = "checked"
    /\ UNCHANGED <<config_doc, rules, features, result, blend_in, blend_out,
                   heap, calls, frame, models>>

\* requests through the whole pipeline
NextRun ==
    \/ LoadModels
    \/ Validate
    \/ ReturnErrors
    \/ CallEvaluate
    \/ CallPredictAll
    \/ CallBlend
    \/ Done

SpecRun == Init /\ [][NextRun]_vars

\* calls of validate_inputs
NextValidate ==
    \/ ValidateForm
    \/ Done

SpecValidate == Init /\ [][NextValidate]_vars

(***************************************************************************)
(* Properties of RuleEngine.evaluate                                       *)
(***************************************************************************)
Evaluated == pc = "evaluated"
Returned == Evaluated /\ result.status = "returned"

\* base_price * factor_1 * ... * factor_n, multiplied in step order
RECURSIVE Replay(_, _)
Replay(price, steps) ==
    IF steps = <<>> THEN price
    ELSE Replay(RMul(price, Head(steps).factor), Tail(steps))

LastStep == result.trace.steps[Len(result.trace.steps)]

\* C1 - trace product law: in every trace that evaluate returns, the base
\* price multiplied by the factor of every step in step order, the
\* price_clamp step included when present, equals the trace's final price.
C1_TraceProductLaw ==
    Returned =>
        Replay(result.trace.base_price, result.trace.steps)
            = result.trace.final_price

\* a returned trace whose ninth step is the clamp step to the upper bound
C1_Witness ==
    /\ Returned
    /\ Len(result.trace.steps) = 9
    /\ LastStep.rule = "price_clamp"
    /\ result.final_price = RMul(result.base_price, max_mult_of(rules))
    /\ RLt(LastStep.factor, One)

\* C2 - clamp invariant: the final price that evaluate returns lies between
\* base_price * min_multiplier and base_price * max_multiplier.
C2_ClampInvariant ==
    Returned =>
        /\ RLe(RMul(result.base_price, min_mult_of(rules)), result.final_price)
        /\ RLe(result.final_price, RMul(result.base_price, max_mult_of(rules)))

\* a returned result whose running price was below the lower bound and was
\* raised to it
C2_Witness ==
    /\ Returned
    /\ RLt(result.trace.steps[8].value_after, result.final_price)
    /\ result.final_price = RMul(result.base_price, min_mult_of(rules))

\* the validation contract on an attribute set: area > 0, floor any integer,
\* scores and indices inside their ranges, any key possibly absent
InRange(f, k, lo, hi) == k \in DOMAIN f => RLe(lo, f[k]) /\ RLe(f[k], hi)

ValidFeatures(f) ==
    /\ "area" \in DOMAIN f => RGt(f["area"], Zero)
    /\ "floor" \in DOMAIN f => f["floor"][2] = 1
    /\ "age" \in DOMAIN f => RGe(f["age"], Zero)
    /\ InRange(f, "amenities_score", Zero, Num(5))
    /\ InRange(f, "demand_score", Zero, Num(5))
    /\ InRange(f, "market_appreciation_score", R(-1, 2), R(1, 2))
    /\ InRange(f, "crime_index", Zero, One)
    /\ InRange(f, "market_volatility", Zero, One)
    /\ InRange(f, "development_index", Zero, One)
    /\ InRange(f, "economic_index", Zero, One)
    /\ InRange(f, "occupancy_rate", Zero, One)

\* C3 - evaluate never fails on valid input: every call on an attribute set
\* that satisfies the validation contract returns a result, the path that
\* appends the clamp step included (the engine holding a rule mapping).
C3_NeverFails ==
    (Evaluated /\ IsMapping(rules) /\ ValidFeatures(features))
        => result.status = "returned"

(***************************************************************************)
(* Properties of blend_predictions                                         *)
(***************************************************************************)
Blended == pc = "blended"
BlendReturned == Blended /\ blend_out.status = "returned"

\* a present prediction with a numeric confidence
Present == /\ Blended
           /\ blend_in.ml_value # None
           /\ IsNumber(blend_in.ml_confidence)

\* the confidence of the call clamped to [0, 0.95], computed on its own
Clamped01(c) ==
    IF RLt(c, Zero) THEN Zero ELSE IF RGt(c, R(95, 100)) THEN R(95, 100) ELSE c

\* a present prediction whose clamped confidence is above 0.05
Confident == Present /\ RGt(Clamped01(blend_in.ml_confidence), R(5, 100))

\* C4 - with an absent predictive value the arbiter returns expert_value
\* unchanged, method expert_only and weights (1.0, 0.0), whatever the
\* confidence is.
C4_AbsentPrediction ==
    (Blended /\ blend_in.ml_value = None) =>
        /\ blend_out.status = "returned"
        /\ blend_out.value = blend_in.expert_value
        /\ blend_out.info.method = "expert_only"
        /\ blend_out.info.expert_weight = One
        /\ blend_out.info.ml_weight = Zero

\* an absent prediction passed with a confidence that is not even a number
C4_Witness ==
    /\ BlendReturned
    /\ blend_in.ml_value = None
    /\ blend_in.ml_confidence = NotANumber
    /\ blend_out.info.method = "expert_only"

\* C5 - with a present predictive value and a clamped confidence <= 0.05
\* (0.05 itself and negative confidences included) the arbiter returns
\* expert_value unchanged with method expert_only.
C5_LowConfidence ==
    (Present /\ RLe(Clamped01(blend_in.ml_confidence), R(5, 100))) =>
        /\ blend_out.status = "returned"
        /\ blend_out.value = blend_in.expert_value
        /\ blend_out.info.method = "expert_only"

\* a present prediction far from the expert value at confidence exactly 0.05
C5_Witness ==
    /\ BlendReturned
    /\ blend_in.ml_value = Num(300000)
    /\ blend_in.expert_value = Num(100000)
    /\ blend_in.ml_confidence = R(5, 100)
    /\ blend_out.value = Num(100000)

\* |predictive - expert| / expert > 0.30, false where the quotient is
\* undefined (expert = 0)
DisagreesOver30 ==
    /\ blend_in.expert_value # Zero
    /\ RGt(RDiv(RAbs(RSub(blend_in.ml_value, blend_in.expert_value)),
                blend_in.expert_value), R(3, 10))

OverrideCondition ==
    /\ DisagreesOver30
    /\ RLt(Clamped01(blend_in.ml_confidence), R(6, 10))

\* C6 - override: with a present predictive value and clamped confidence
\* > 0.05, the arbiter returns expert_value with method expert_preferred
\* when the relative disagreement is strictly above 0.30 and the confidence
\* strictly below 0.6, and does not take the override when either strict
\* condition fails.
C6_Override ==
    Confident =>
        /\ blend_out.status = "returned"
        /\ OverrideCondition =>
              /\ blend_out.value = blend_in.expert_value
              /\ blend_out.info.method = "expert_preferred"
        /\ ~OverrideCondition => blend_out.info.method # "expert_preferred"

\* scenario B: expert 200000, predictive 300000, confidence 0.4
C6_Witness ==
    /\ BlendReturned
    /\ blend_in = [expert_value |-> Num(200000), ml_value |-> Num(300000),
                   ml_confidence |-> R(4, 10)]
    /\ blend_out.info.method = "expert_preferred"
    /\ blend_out.value = Num(200000)

\* C7 - with a present predictive value, clamped confidence > 0.05 and no
\* override, the arbiter returns confidence * predictive + (1 - confidence)
\* * expert on the clamped confidence, with method confidence_weighted.
C7_WeightedAverage ==
    (Confident /\ ~OverrideCondition) =>
        LET c == Clamped01(blend_in.ml_confidence)
        IN  /\ blend_out.status = "returned"
            /\ blend_out.info.method = "confidence_weighted"
            /\ blend_out.value =
                  RAdd(RMul(c, blend_in.ml_value),
                       RMul(RSub(One, c), blend_in.expert_value))

\* scenario D: expert 100000, predictive 110000, confidence 0.5 gives 105000
C7_Witness ==
    /\ BlendReturned
    /\ blend_in = [expert_value |-> Num(100000), ml_value |-> Num(110000),
                   ml_confidence |-> R(1, 2)]
    /\ blend_out.value = Num(105000)
    /\ blend_out.info.method = "confidence_weighted"

\* C8 - with expert_value <= 0, a present predictive value and clamped
\* confidence > 0.05, the arbiter raises nothing and returns the
\* confidence-weighted average with method confidence_weighted, whatever
\* the disagreement and the confidence.
C8_NonPositiveExpert ==
    (Confident /\ RLe(blend_in.expert_value, Zero)) =>
        LET c == Clamped01(blend_in.ml_confidence)
        IN  /\ blend_out.status = "returned"
            /\ blend_out.info.method = "confidence_weighted"
            /\ blend_out.value =
                  RAdd(RMul(c, blend_in.ml_value),
                       RMul(RSub(One, c), blend_in.expert_value))

\* expert value zero, a distant prediction and a confidence below 0.6
C8_Witness ==
    /\ BlendReturned
    /\ blend_in = [expert_value |-> Zero, ml_value |-> Num(300000),
                   ml_confidence |-> R(4, 10)]
    /\ blend_out.value = Num(120000)

\* C9 - blend weight law: in every decision record the arbiter returns,
\* expert_weight + ml_weight = 1.
C9_WeightLaw ==
    BlendReturned =>
        RAdd(blend_out.info.expert_weight, blend_out.info.ml_weight) = One

\* a confidence_weighted decision with both weights strictly positive
C9_Witness ==
    /\ BlendReturned
    /\ blend_out.info.method = "confidence_weighted"
    /\ RGt(blend_out.info.ml_weight, Zero)
    /\ RGt(blend_out.info.expert_weight, Zero)

\* C10 - with a present predictive value, the ml_confidence recorded in the
\* decision and the weight applied to the predictive value are never below
\* 0 and never above 0.95, whatever the input confidence.
C10_ConfidenceClamped ==
    (Present /\ BlendReturned) =>
        /\ RLe(Zero, blend_out.info.ml_confidence)
        /\ RLe(blend_out.info.ml_confidence, R(95, 100))
        /\ RLe(Zero, blend_out.info.ml_weight)
        /\ RLe(blend_out.info.ml_weight, R(95, 100))

\* an input confidence of 1.5 recorded and applied as 0.95
C10_Witness ==
    /\ BlendReturned
    /\ blend_in.ml_value # None
    /\ blend_in.ml_confidence = R(3, 2)
    /\ blend_out.info.ml_confidence = R(95, 100)
    /\ blend_out.info.ml_weight = R(95, 100)

(***************************************************************************)
(* Risk, clamp step, ROI and step deltas of RuleEngine.evaluate            *)
(***************************************************************************)
\* C11 - the risk score that evaluate returns is never below 0 and never
\* above 1, whatever the crime, volatility, economic index, condition, age
\* and demand of the attribute set.
C11_RiskInUnitInterval ==
    Returned =>
        /\ RLe(Zero, result.risk_score)
        /\ RLe(result.risk_score, One)

\* every contribution at its largest: the sum is 1.25 and the score is 1
C11_Witness ==
    /\ Returned
    /\ RGt(risk_sum(features), One)
    /\ result.risk_score = One

\* the running price after the eighth adjustment
Unclamped == result.trace.steps[8].value_after

\* C14 - a returned trace has a ninth step, named price_clamp, exactly when
\* clamping changed the running price, and that step's factor is the
\* clamped price over the unclamped price; otherwise the trace has exactly
\* the eight adjustment steps.
C14_ClampStep ==
    Returned =>
        LET steps == result.trace.steps
            clamped == clamp_price(rules, result.trace.base_price, Unclamped)
        IN  /\ Len(steps) \in {8, 9}
            /\ Len(steps) = 9 <=> clamped # Unclamped
            /\ \A i \in 1..8 : steps[i].rule # "price_clamp"
            /\ Len(steps) = 9 =>
                  /\ steps[9].rule = "price_clamp"
                  /\ steps[9].factor = RDiv(clamped, Unclamped)
                  /\ steps[9].value_before = Unclamped
                  /\ steps[9].value_after = clamped

\* a negative running price raised to the lower bound by a ninth step whose
\* factor is negative
C14_Witness ==
    /\ Returned
    /\ Len(result.trace.steps) = 9
    /\ RLt(Unclamped, Zero)
    /\ RLt(result.trace.steps[9].factor, Zero)

\* C15 - the ROI that evaluate returns (a percentage rounded to two places)
\* is (annual_rent * occupancy_rate - expenses) / purchase_price when
\* purchase_price > 0 and exactly 0 when purchase_price <= 0, each quantity
\* being the attribute or, when absent, the default the call computes.
C15_Roi ==
    Returned =>
        LET estimated == RMul(result.final_price, rent_yield_of(rules, features))
            occupancy_rate == Get(features, "occupancy_rate", R(9, 10))
            annual_rent == Get(features, "annual_rent", estimated)
            expenses == Get(features, "expenses", RMul(annual_rent, R(1, 10)))
            purchase_price == Get(features, "purchase_price", result.final_price)
        IN  IF RGt(purchase_price, Zero)
            THEN result.roi =
                    Round2(RMul(RDiv(RSub(RMul(annual_rent, occupancy_rate),
                                          expenses), purchase_price),
                                Num(100)))
            ELSE result.roi = Zero

\* a negative purchase price with a positive net rent: the ROI is 0
C15_Witness ==
    /\ Returned
    /\ "purchase_price" \in DOMAIN features
    /\ RLt(features["purchase_price"], Zero)
    /\ "annual_rent" \in DOMAIN features
    /\ "occupancy_rate" \in DOMAIN features
    /\ RGt(RMul(features["annual_rent"], features["occupancy_rate"]),
           Get(features, "expenses", Num(1000)))
    /\ result.roi = Zero

BadDocs == {"absent", "not_json", "json_array"}

\* C17 - an engine constructed on an absent, unreadable or malformed rule
\* document (one that parses but is not a mapping included) holds the
\* hard-coded default configuration in full, and no evaluate call on it
\* raises.
C17_DefaultOnBadDocument ==
    config_doc \in BadDocs =>
        /\ rules = get_default_rules
        /\ Evaluated => result.status = "returned"

(***************************************************************************)
(* Consecutive calls of RuleEngine.evaluate on one engine                  *)
(***************************************************************************)
ReturnedCall(i) == calls[i].result.status = "returned"

\* C12 - evaluate is deterministic and keeps no state between calls: two
\* calls with equal attribute sets have the same outcome, price and trace;
\* every call writes into a trace object of its own, which holds only that
\* call's steps; and the trace a call returned is never changed by a later
\* call.
C12_FreshDeterministic ==
    \A i \in DOMAIN calls :
        /\ \A j \in DOMAIN calls :
              calls[j].passed = calls[i].passed
                  => calls[j].result = calls[i].result
        /\ \A j \in DOMAIN calls : j # i => calls[j].ref # calls[i].ref
        /\ ReturnedCall(i) =>
              /\ heap[calls[i].ref] = calls[i].result.trace
              /\ Len(calls[i].result.trace.steps) <= 9
              /\ calls[i].result.trace.steps[1].value_before
                    = base_price_of(rules, calls[i].passed)

\* the same attribute set evaluated twice, both traces with a clamp step,
\* in two trace objects
C12_Witness ==
    /\ Len(calls) = 2
    /\ calls[1].passed = calls[2].passed
    /\ ReturnedCall(1)
    /\ ReturnedCall(2)
    /\ calls[1].ref # calls[2].ref
    /\ Len(heap[calls[1].ref].steps) = 9
    /\ Len(heap[calls[2].ref].steps) = 9

\* the rule names in the order evaluate appends their steps
RuleOrder ==
    <<"floor_adjustment", "parking", "amenities", "demand", "appreciation",
      "crime_penalty", "volatility", "development", "price_clamp">>

\* C13 - in every step of every call, each trace holds the steps of
\* floor_adjustment, parking, amenities, demand, appreciation,
\* crime_penalty, volatility, development and then price_clamp in this
\* order, one step per rule, a returned trace holding at least the first
\* eight; and the steps a trace held before the step are still its first
\* steps, unchanged, after it.
C13_StepOrder ==
    [][ /\ \A id \in DOMAIN heap' :
              /\ Len(heap'[id].steps) <= Len(RuleOrder)
              /\ \A n \in DOMAIN heap'[id].steps :
                    heap'[id].steps[n].rule = RuleOrder[n]
        /\ \A id \in DOMAIN heap :
              /\ Len(heap[id].steps) <= Len(heap'[id].steps)
              /\ SubSeq(heap'[id].steps, 1, Len(heap[id].steps))
                    = heap[id].steps
        /\ \A i \in DOMAIN calls' :
              calls'[i].result.status = "returned"
                  => Len(heap'[calls'[i].ref].steps) >= 8 ]_vars

\* a second call with four steps appended so far, the first call's returned
\* nine steps still in the heap
C13_Witness ==
    /\ pc = "adjusting"
    /\ Len(calls) = 1
    /\ ReturnedCall(1)
    /\ Len(heap[calls[1].ref].steps) = 9
    /\ frame.applied = 4
    /\ Len(heap[frame.ref].steps) = 4
    /\ heap[frame.ref].steps[4].rule = "demand"

\* C18 - evaluate leaves its inputs alone: after any sequence of calls the
\* engine's rule configuration is the one loaded at construction, and the
\* attribute set the caller passed to each call is what it was before the
\* call.
C18_FrameEffect ==
    /\ rules = load_rules(config_doc)
    /\ \A i \in DOMAIN calls : calls[i].held = calls[i].passed

\* two returned calls on a clamp-only configuration, one of them on an
\* attribute set that left keys to the defaults
C18_Witness ==
    /\ Len(calls) = 2
    /\ ReturnedCall(1)
    /\ ReturnedCall(2)
    /\ config_doc = "clamp_only"
    /\ "location" \notin DOMAIN calls[2].passed
    /\ calls[2].held = calls[2].passed

(***************************************************************************)
(* Properties of run_evaluation                                            *)
(***************************************************************************)
\* a request that went through the blend and returned its result
Ran == pc = "ran" /\ run_out.status = "returned" /\ run_out.valid

\* predict_with_confidence yielded None for price in this request
PriceUnavailable ==
    /\ "predicted" \in DOMAIN run
    /\ run.predicted["price"].prediction = None

ExpertOnly ==
    /\ run_out.blend_info.method = "expert_only"
    /\ run_out.final_price = run_out.expert_result.expert_price

\* C19 as stated - whenever predict_with_confidence yields None for price
\* (model not loaded, or inference raised), the arbiter takes the
\* expert_only branch and the final price is the expert price.
C19_UnavailableMeansExpertOnly ==
    (Ran /\ PriceUnavailable) => ExpertOnly

\* C19 amended - whenever predict_with_confidence yields None for price and
\* some other model yields a prediction (so that run_evaluation keeps the
\* real predictions), the arbiter takes the expert_only branch and the
\* final price is the expert price.
C19_UnavailableAmongAvailable ==
    (Ran /\ PriceUnavailable /\ any_available(run.predicted)) => ExpertOnly

\* the price model raised at inference, the rent model predicted, and the
\* request returned the expert price by expert_only
C19_Witness ==
    /\ Ran
    /\ "price" \in models.last_error
    /\ run.predicted["price"].prediction = None
    /\ run.predicted["rent"].available
    /\ run_out.blend_info.method = "expert_only"
    /\ run_out.final_price = run_out.expert_result.expert_price

\* C20 - whenever validate_inputs recorded at least one error for a
\* request, run_evaluation never reaches the call of evaluate, of the
\* predictions or of the blend for it, and what it returns to the caller is
\* no result, the recorded errors and the warnings.
C20_ErrorsBeforeCore ==
    ("validation" \in DOMAIN run /\ run.validation.errors # <<>>) =>
        /\ pc \in {"validated", "ran"}
        /\ DOMAIN run = {"validation"}
        /\ pc = "ran" =>
              /\ run_out.status = "returned"
              /\ ~run_out.valid
              /\ run_out.errors = run.validation.errors
              /\ run_out.warnings = run.validation.warnings
              /\ DOMAIN run_out = {"status", "valid", "errors", "warnings"}

\* a request with two recorded errors (area and property type) returned
\* with exactly these errors
C20_Witness ==
    /\ pc = "ran"
    /\ "validation" \in DOMAIN run
    /\ Len(run.validation.errors) = 2
    /\ run_out.status = "returned"
    /\ ~run_out.valid
    /\ run_out.errors = <<"Area must be greater than 0",
                          "Property type must be one of">>

(***************************************************************************)
(* The chain of steps and the single adjustments of RuleEngine.evaluate    *)
(***************************************************************************)
\* C21 - every returned trace is a contiguous chain seeded by the base
\* price, which is not itself a step: the steps are the adjustments (and
\* possibly the clamp), the first step starts from the trace's base price,
\* every later step starts from the value the preceding step ended with,
\* every step other than the clamp ends with its starting value times its
\* factor, and the last step ends with the trace's final price.
C21_ContiguousChain ==
    Returned =>
        LET steps == result.trace.steps
        IN  /\ steps # <<>>
            /\ \A i \in DOMAIN steps : steps[i].rule = RuleOrder[i]
            /\ steps[1].value_before = result.trace.base_price
            /\ \A i \in 2..Len(steps) :
                  steps[i].value_before = steps[i - 1].value_after
            /\ \A i \in DOMAIN steps :
                  steps[i].rule # "price_clamp" =>
                      steps[i].value_after
                          = RMul(steps[i].value_before, steps[i].factor)
            /\ LastStep.value_after = result.trace.final_price

\* a chain of nine steps whose first two adjustments changed the price and
\* whose clamp step ends at a final price different from the base price
C21_Witness ==
    /\ Returned
    /\ Len(result.trace.steps) = 9
    /\ result.trace.steps[1].value_after # result.trace.base_price
    /\ result.trace.steps[2].value_after
          # result.trace.steps[1].value_after
    /\ result.trace.steps[9].value_before
          = result.trace.steps[8].value_after
    /\ result.trace.final_price # result.trace.base_price

\* the configured entry of a rule group, or the default evaluate falls back to
Configured(group, key, default) ==
    Get(Get(rules, group, EmptyDict), key, default)

\* C22 - the volatility step of every returned trace has factor exactly 1
\* when the volatility does not exceed the configured threshold and factor
\* 1 - min(max_penalty, volatility * weight) when it does; so the factor is
\* never below 1 - max_penalty.
C22_VolatilityPenalty ==
    Returned =>
        LET step == result.trace.steps[7]
            volatility == Get(features, "market_volatility", R(1, 10))
            threshold == Configured("volatility", "threshold", R(2, 10))
            max_penalty == Configured("volatility", "max_penalty", R(12, 100))
            weight == Configured("volatility", "weight", R(4, 10))
        IN  /\ step.rule = "volatility"
            /\ RLe(volatility, threshold) => step.factor = One
            /\ RGt(volatility, threshold) =>
                  step.factor
                      = RSub(One, RMin(max_penalty, RMul(volatility, weight)))
            /\ RGe(step.factor, RSub(One, max_penalty))

\* a volatility whose weighted penalty exceeds the cap: the factor is
\* 1 - max_penalty
C22_Witness ==
    /\ Returned
    /\ "market_volatility" \in DOMAIN features
    /\ RGt(RMul(features["market_volatility"],
                Configured("volatility", "weight", R(4, 10))),
           Configured("volatility", "max_penalty", R(12, 100)))
    /\ result.trace.steps[7].factor
          = RSub(One, Configured("volatility", "max_penalty", R(12, 100)))

\* C23 - the floor step of every returned trace has factor
\* 1 + ground_commercial_bonus for a commercial property on floor 0 and
\* factor 1 + min(floor * per_floor_bonus, max_floor_bonus) for every other
\* property, so the linear bonus never exceeds the configured maximum.
C23_FloorAdjustment ==
    Returned =>
        LET step == result.trace.steps[1]
            property_type == Lower(Get(features, "property_type", "flat"))
            floor == Get(features, "floor", Num(1))
            ground == Configured("floor_adjustments",
                                 "ground_commercial_bonus", R(5, 100))
            per_floor == Configured("floor_adjustments", "per_floor_bonus",
                                    R(1, 100))
            max_bonus == Configured("floor_adjustments", "max_floor_bonus",
                                    R(10, 100))
        IN  /\ step.rule = "floor_adjustment"
            /\ IF property_type = "commercial" /\ floor = Zero
               THEN step.factor = RAdd(One, ground)
               ELSE /\ step.factor
                          = RAdd(One, RMin(RMul(floor, per_floor), max_bonus))
                    /\ RLe(RSub(step.factor, One), max_bonus)

\* a commercial property, spelt with a capital, on floor 0: the flat bonus
C23_Witness ==
    /\ Returned
    /\ "property_type" \in DOMAIN features
    /\ features["property_type"] = "Commercial"
    /\ "floor" \in DOMAIN features
    /\ features["floor"] = Zero
    /\ result.trace.steps[1].factor
          = RAdd(One, Configured("floor_adjustments",
                                 "ground_commercial_bonus", R(5, 100)))
    /\ result.trace.steps[1].factor # One

\* C24 - the estimated annual rent that evaluate returns (rounded to two
\* places) is the clamped final price times exactly one of the three
\* configured yields: the high-demand yield when demand_score >= 4, the
\* medium-demand yield when 2 <= demand_score < 4, the low-demand yield when
\* demand_score < 2.
C24_RentTiers ==
    Returned =>
        LET demand_score == Get(features, "demand_score", Num(3))
            high == Configured("rent_yields", "high_demand", R(8, 100))
            medium == Configured("rent_yields", "medium_demand", R(5, 100))
            low == Configured("rent_yields", "low_demand", R(3, 100))
            rent_yield ==
                IF RGe(demand_score, Num(4)) THEN high
                ELSE IF RGe(demand_score, Num(2)) /\ RLt(demand_score, Num(4))
                THEN medium
                ELSE low
        IN  /\ result.final_price
                  = clamp_price(rules, result.base_price, Unclamped)
            /\ result.estimated_rent
                  = Round2(RMul(result.final_price, rent_yield))

\* a demand score of exactly 4: the rent is the final price times the
\* high-demand yield, which is not what the medium-demand yield gives
C24_Witness ==
    /\ Returned
    /\ "demand_score" \in DOMAIN features
    /\ features["demand_score"] = Num(4)
    /\ result.estimated_rent
          = Round2(RMul(result.final_price,
                        Configured("rent_yields", "high_demand", R(8, 100))))
    /\ result.estimated_rent
          # Round2(RMul(result.final_price,
                        Configured("rent_yields", "medium_demand",
                                   R(5, 100))))

\* an attribute set with its age replaced
AtAge(f, a) ==
    [k \in DOMAIN f \cup {"age"} |-> IF k = "age" THEN a ELSE f[k]]

\* the ages an attribute set is compared with
Ages == {Zero, Num(10), Num(80), Num(100)}

\* the age factor inside a base price: the base price over the base price
\* of the same property at age 0, whose age factor is 1
AgeFactorIn(base_price, f) ==
    RDiv(base_price, base_price_of(rules, AtAge(f, Zero)))

\* C25 - for every age >= 0 the age factor that enters the base price is
\* max(1 - age * rate_per_year, min_age_factor): it is never negative, never
\* below the configured minimum, and never above the age factor of a
\* younger property that is otherwise the same.
C25_AgeFactor ==
    Returned =>
        LET age == Get(features, "age", Num(10))
            rate == Configured("age_depreciation", "rate_per_year",
                               R(5, 1000))
            min_age_factor == Configured("age_depreciation", "min_factor",
                                         R(6, 10))
            age_factor == AgeFactorIn(result.base_price, features)
        IN  RGe(age, Zero) =>
              /\ age_factor = RMax(RSub(One, RMul(age, rate)), min_age_factor)
              /\ RGe(age_factor, Zero)
              /\ RGe(age_factor, min_age_factor)
              /\ \A a \in Ages :
                    RLe(a, age) =>
                        RLe(age_factor,
                            AgeFactorIn(base_price_of(rules,
                                                      AtAge(features, a)),
                                        features))

\* an age at which 1 - age * rate is below the minimum: the age factor is
\* the minimum, and it is below the age factor at age 10
C25_Witness ==
    /\ Returned
    /\ "age" \in DOMAIN features
    /\ RLt(RSub(One, RMul(features["age"],
                          Configured("age_depreciation", "rate_per_year",
                                     R(5, 1000)))),
           Configured("age_depreciation", "min_factor", R(6, 10)))
    /\ AgeFactorIn(result.base_price, features)
          = Configured("age_depreciation", "min_factor", R(6, 10))
    /\ RLt(AgeFactorIn(result.base_price, features),
           AgeFactorIn(base_price_of(rules, AtAge(features, Num(10))),
                       features))

(***************************************************************************)
(* Properties of validate_inputs                                           *)
(***************************************************************************)
\* validate_inputs returned a result whose is_valid is true
Checked == pc = "checked" /\ "validation" \in DOMAIN run
ValidForm == Checked /\ run.validation.errors = <<>>

\* the caller supplied a value for the field
Supplied(k) == k \in DOMAIN run_in.data /\ ~Missing(run_in.data[k])

\* lo <= cleaned_data[k] <= hi
CleanedWithin(k, lo, hi) ==
    LET v == run.validation.cleaned_data[k]
    IN  IsNumber(v) /\ FLe(lo, v) /\ FLe(v, hi)

\* C26 - whenever validate_inputs returns a result with is_valid true, its
\* cleaned_data has an area > 0, a property type of the allowed set, an age
\* that is not negative, and every score or index the caller supplied
\* inside its range.
C26_CleanedMeetsContract ==
    ValidForm =>
        LET cleaned == run.validation.cleaned_data
        IN  /\ "area" \in DOMAIN cleaned
            /\ IsNumber(cleaned["area"])
            /\ FGt(cleaned["area"], Zero)
            /\ "property_type" \in DOMAIN cleaned
            /\ cleaned["property_type"]
                  \in ValidNames(validator_load_rules(config_doc),
                                 "property_type_factors",
                                 {"house", "flat", "plot", "commercial"})
            /\ "age" \in DOMAIN cleaned
            /\ FLe(Zero, cleaned["age"])
            /\ Supplied("amenities_score")
                  => CleanedWithin("amenities_score", Zero, Num(5))
            /\ Supplied("demand_score")
                  => CleanedWithin("demand_score", Zero, Num(5))
            /\ Supplied("occupancy_rate")
                  => CleanedWithin("occupancy_rate", Zero, One)
            /\ Supplied("market_appreciation_score")
                  => CleanedWithin("market_appreciation_score",
                                   R(-1, 2), R(1, 2))
            /\ Supplied("crime_index")
                  => CleanedWithin("crime_index", Zero, One)
            /\ Supplied("market_volatility")
                  => CleanedWithin("market_volatility", Zero, One)
            /\ Supplied("economic_index")
                  => CleanedWithin("economic_index", Zero, One)
            /\ Supplied("development_index")
                  => CleanedWithin("development_index", Zero, One)

(***************************************************************************)
(* Interval and weights of blend_predictions                               *)
(***************************************************************************)
\* C27 - the value blend_predictions returns never leaves the interval
\* spanned by its two estimates: it is the expert value when the method is
\* expert_only or expert_preferred, and it lies between the smaller and the
\* larger of the expert value and the predictive value when the method is
\* confidence_weighted.
C27_WithinInterval ==
    BlendReturned =>
        LET method == blend_out.info.method
            e == blend_in.expert_value
            m == blend_in.ml_value
        IN  /\ method \in {"expert_only", "expert_preferred",
                           "confidence_weighted"}
            /\ method \in {"expert_only", "expert_preferred"}
                  => blend_out.value = e
            /\ method = "confidence_weighted"
                  => /\ m # None
                     /\ RLe(RMin(e, m), blend_out.value)
                     /\ RLe(blend_out.value, RMax(e, m))

\* the rounding error that the rounded expert weight, the two rounded
\* products and the rounded sum can add up to: less than four units of
\* roundoff (2^-Precision) of the larger of the two magnitudes
RoundingSlack(e, m) ==
    RMul(R(4, Pow2(Precision)), RMax(RAbs(e), RAbs(m)))

\* C27 - in floating point the value blend_predictions returns is the expert
\* value when the method is expert_only or expert_preferred, and when the
\* method is confidence_weighted it lies between the smaller and the larger
\* of the expert value and the predictive value up to the rounding of the
\* weighted average: it leaves the interval by no more than the rounding
\* slack.
C27_WithinIntervalUpToRounding ==
    BlendReturned =>
        LET method == blend_out.info.method
            e == blend_in.expert_value
            m == blend_in.ml_value
        IN  /\ method \in {"expert_only", "expert_preferred",
                           "confidence_weighted"}
            /\ method \in {"expert_only", "expert_preferred"}
                  => blend_out.value = e
            /\ method = "confidence_weighted"
                  => /\ m # None
                     /\ RLe(RSub(RMin(e, m), RoundingSlack(e, m)),
                            blend_out.value)
                     /\ RLe(blend_out.value,
                            RAdd(RMax(e, m), RoundingSlack(e, m)))

\* a weighted blend of two equal estimates that rounding carries out of the
\* interval: the returned value is neither of them
C27_Witness ==
    /\ BlendReturned
    /\ blend_out.info.method = "confidence_weighted"
    /\ blend_in.expert_value = blend_in.ml_value
    /\ blend_out.value # blend_in.expert_value

\* C28 - in every decision blend_predictions returns, ml_weight is the
\* clamped confidence when the method is confidence_weighted and 0 under
\* every other method; so expert_weight is never below 0.05: the expert
\* value always contributes at least 5% to the returned value.
C28_MlWeight ==
    BlendReturned =>
        LET info == blend_out.info
        IN  /\ info.method = "confidence_weighted" =>
                  /\ IsNumber(blend_in.ml_confidence)
                  /\ info.ml_weight = Clamped01(blend_in.ml_confidence)
                  /\ info.ml_weight = info.ml_confidence
            /\ info.method # "confidence_weighted" => info.ml_weight = Zero
            /\ RGe(info.expert_weight, R(5, 100))

\* a confidence above the ceiling: the ml weight is 0.95 and the expert
\* weight is exactly 0.05
C28_Witness ==
    /\ BlendReturned
    /\ blend_out.info.method = "confidence_weighted"
    /\ RGt(blend_in.ml_confidence, One)
    /\ blend_out.info.ml_weight = R(95, 100)
    /\ blend_out.info.expert_weight = R(5, 100)

(***************************************************************************)
(* Synthetic predictions and real predictions in run_evaluation            *)
(***************************************************************************)
\* predict_all found no model available for this request
NoneAvailable == "predicted" \in DOMAIN run /\ ~any_available(run.predicted)

\* what C29 says of a request, the synthetic price being allowed to differ
\* from the expert price by 15% of it plus a tolerance
SyntheticWithin(tolerance) ==
    LET price == run.ml_results["price"]
        expert_price == run.expert_result.expert_price
    IN  /\ \A name \in MODEL_NAMES :
              /\ "synthetic" \in DOMAIN run.ml_results[name]
              /\ run.ml_results[name].synthetic
              /\ run.ml_results[name].available
        /\ RLe(RAbs(RSub(price.prediction, expert_price)),
               RAdd(RMul(R(15, 100), RAbs(expert_price)), tolerance))
        /\ RLe(R(65, 100), price.confidence)
        /\ RLe(price.confidence, R(90, 100))
        /\ (Ran /\ RGt(expert_price, Zero)) =>
              /\ run_out.blend_info.method = "confidence_weighted"
              /\ run_out.blend_info.ml_weight = price.confidence
              /\ RLe(R(65, 100), run_out.blend_info.ml_weight)
              /\ RLe(run_out.blend_info.ml_weight, R(90, 100))

\* C29 as stated - when no predictive model at all is available,
\* run_evaluation replaces the predictions by synthetic ones: the price
\* entry is marked synthetic and available, its prediction is within 15% of
\* the expert price and its confidence is in [0.65, 0.90]; so for a positive
\* expert price the request is blended by confidence_weighted, never by
\* expert_only or expert_preferred, with ml_weight in [0.65, 0.90].
C29_SyntheticBlend ==
    NoneAvailable => SyntheticWithin(Zero)

\* C29 amended - the same, the synthetic price being within 15% of the
\* expert price before it is rounded to two places: the rounded prediction
\* is within 15% of the expert price plus half a cent.
C29_SyntheticBlendToTheCent ==
    NoneAvailable => SyntheticWithin(R(5, 1000))

\* the only loaded model raised at inference; the synthetic price is the
\* expert price plus 15% rounded up to the cent, which is more than 15%
\* above the expert price, at confidence 0.90, blended by
\* confidence_weighted
C29_Witness ==
    /\ Ran
    /\ NoneAvailable
    /\ models.loaded = {"price"}
    /\ "price" \in models.last_error
    /\ RGt(run.expert_result.expert_price, Zero)
    /\ RGt(run.ml_results["price"].prediction,
           RMul(run.expert_result.expert_price, R(115, 100)))
    /\ run_out.blend_info.method = "confidence_weighted"
    /\ run_out.blend_info.ml_weight = R(90, 100)
    /\ run_out.final_price # run.expert_result.expert_price

\* C30 - in every call of predict_all, predict_with_confidence returns for
\* each model either (None, 0.0), the model not being loaded or its
\* inference having raised, the error then being recorded as the model's
\* last_error, or a value with a confidence c, 0.1 <= c <= 0.95; the loaded
\* models are the same after the call; and a request whose price comes from
\* a loaded model is never decided by the low-confidence branch
\* (expert_only).
C30_PredictWithConfidence ==
    [][ /\ (pc = "expert_done" /\ pc' = "predicted") =>
              /\ models'.loaded = models.loaded
              /\ models'.failing = models.failing
              /\ models.last_error \subseteq models'.last_error
              /\ \A name \in MODEL_NAMES :
                    LET p == run'.predicted[name]
                    IN  IF p.prediction = None
                        THEN /\ p.confidence = Zero
                             /\ \/ name \notin models.loaded
                                \/ /\ name \in models.failing
                                   /\ name \in models'.last_error
                        ELSE /\ name \in models.loaded
                             /\ name \notin models'.last_error
                             /\ RLe(R(1, 10), p.confidence)
                             /\ RLe(p.confidence, R(95, 100))
        /\ (pc = "predicted" /\ pc' = "ran"
            /\ run.predicted["price"].prediction # None) =>
              /\ run.ml_results = run.predicted
              /\ run_out'.blend_info.method
                    \in {"confidence_weighted", "expert_preferred"}
              /\ run_out'.blend_info.ml_confidence
                    = run.predicted["price"].confidence ]_vars

\* every model loaded, the price model raising: its prediction is None at
\* confidence 0 with the error recorded, the rent model predicts at a
\* confidence between 0.1 and 0.95, and the request is decided by
\* expert_only on the missing price
C30_Witness ==
    /\ Ran
    /\ models.loaded = MODEL_NAMES
    /\ models.last_error = {"price"}
    /\ run.predicted["price"].prediction = None
    /\ run.predicted["price"].confidence = Zero
    /\ run.predicted["rent"].prediction # None
    /\ RLt(R(1, 10), run.predicted["rent"].confidence)
    /\ RLt(run.predicted["rent"].confidence, R(95, 100))
    /\ run_out.blend_info.method = "expert_only"

=============================================================================
